---- MODULE Spec2Model ----
(***************************************************************************)
(* Diagnostic workflow engine of K8s-Agent: the graph data model           *)
(* (bean/graph/Graph.py, Node.py, Edge.py), its traversal step             *)
(* Graph.jump_to_node_by_condition, the workflow executor                  *)
(* (bean/executor/graphExecutor.py, bean/workflow/workflowManager.py) and  *)
(* the memory store (bean/memory/BaseMemory.py, baseMemory.py).            *)
(***************************************************************************)
EXTENDS Integers, Sequences, FiniteSets, TLC

VARIABLES
    nodes,            \* Graph.nodes: node_id -> Node (node_type, parent_node, edges)
    edges,            \* Graph.edges: every edge added, in insertion order
    current_node_id,  \* Graph.current_node_id: the cursor kept by the graph object
    last,             \* the last call of jump_to_node_by_condition and its outcome
    advances,         \* calls of jump_to_node_by_condition that returned anything but False so far
    conclusion,       \* Node.conclusion of every node
    wf,               \* every Workflow object created: current_node_id, history, context
    workflows,        \* WorkflowManager.workflows: the ids tracked
    tasks,            \* WorkflowManager.tasks: the ids whose task is tracked
    task_state,       \* asyncio.Task of every workflow: "none" (no task made), "pending",
                      \* "cancelling" (cancel() called, not yet run), "cancelled", "finished"
                      \* or "failed" (ended by an exception)
    new_tasks_event,  \* WorkflowManager.new_tasks_event
    ready,            \* the event loop's queue of callbacks ready to run
    runner,           \* GraphExecutor.execute / WorkflowManager.run_all_tasks: where it stands
    action_map,       \* BaseMemory.action_map: action -> the record stored under it
    dicts,            \* every dict object made for a Workflow.context, by identity
    excepted,         \* the workflows whose process_workflow went through its except handler
    removed,          \* the id of the last call of remove_workflow; flip changes at every call
    memory_store,     \* BaseMemory.memory_store: the heapq list of (-timestamp, action)
    clock,            \* datetime.now()
    refresh,          \* the pass of refresh_all_items in progress, or the last one
    memory_class,     \* which store class is in use: "BaseMemory" or "baseMemory"
    stores,           \* calls of store_data so far
    stage,            \* the Stage or parser call under way: its inputs, counters and outcome
    request           \* the /analyze request under way: its description and how far it got

graphVars == <<nodes, edges, current_node_id, last, advances>>
execVars == <<conclusion, wf, workflows, tasks, task_state, new_tasks_event, ready, runner, action_map,
              dicts, excepted>>
mgrVars == <<removed>>
memVars == <<memory_store, clock, refresh, memory_class, stores, stage, request>>
auxVars == <<removed, memory_store, clock, refresh, memory_class, stores, stage, request>>
vars == <<nodes, edges, current_node_id, last, advances,
          conclusion, wf, workflows, tasks, task_state, new_tasks_event, ready, runner, action_map,
          dicts, excepted, removed, memory_store, clock, refresh, memory_class, stores, stage,
          request>>

(***************************************************************************)
(* Bounds of the model.                                                    *)
(***************************************************************************)
MaxEdges == 2
MaxAdvances == 4
MaxWorkflows == 4
MaxManaged == 2
MaxClock == 3
MaxStored == 3
MaxLifecycle == 2
MaxOutputs == 3
MaxCalls == 2
MaxFixing == 2
MaxRepaired == 2
MaxText == 3
MaxPatterns == 2

NodeIds == {"1", "2", "3"}
NodeTypes == {"input", "default", "output", "group"}
GroupIds == {"3"}
Labels == {"", "yes"}
PyNone == "<None>"
Conditions == {PyNone, "", "yes", "Yes", "no"}
Callers == {1, 2}

(***************************************************************************)
(* Python values.                                                          *)
(***************************************************************************)
\* truth value of an Optional[str]: None and "" are falsy
Truthy(s) == s # PyNone /\ s # ""

(***************************************************************************)
(* Edge and Node.                                                          *)
(***************************************************************************)
\* the attributes Edge.__init__ sets on an edge object
EdgeAttrsWithTarget == {"edge_id", "source_node", "target_node", "target", "edge_type", "condition_value"}
EdgeAttrs == {"edge_id", "source_node", "target_node", "edge_type", "condition_value"}

Edge(s, t, c) == [source_node |-> s, target_node |-> t, condition_value |-> c]

Node(ty, p) == [node_type |-> ty, parent_node |-> p, edges |-> <<>>]

\* Node.add_edge
NodeAddEdge(n, e) == [n EXCEPT !.edges = Append(@, e)]

\* Graph.get_node: the node or None
HasNode(ns, id) == id \in DOMAIN ns

\* Graph.add_node
AddNode(ns, id, n) == [i \in DOMAIN ns \cup {id} |-> IF i = id THEN n ELSE ns[i]]

\* Graph.add_edge, the part that indexes the edge into its source node
AddEdge(ns, e) ==
    IF HasNode(ns, e.source_node)
    THEN [ns EXCEPT ![e.source_node] = NodeAddEdge(@, e)]
    ELSE ns

(***************************************************************************)
(* Graph.jump_to_node_by_condition and Graph.find_group_input.             *)
(* An outcome is the cursor the call leaves in Graph.current_node_id, the  *)
(* value it returns ("True", "False" or "None") and the exception it       *)
(* raises ("" when it returns).                                            *)
(***************************************************************************)
Returns(cur, r) == [cursor |-> cur, ret |-> r, raised |-> ""]
Raises(cur, x) == [cursor |-> cur, ret |-> "raise", raised |-> x]

\* `for node in self.nodes` walks a dict, which yields its keys (strings)
DictIterYieldsKeys == TRUE

\* Graph.find_group_input, called with the cursor on cur
FindGroupInput(ns, cur) ==
    IF ~HasNode(ns, cur) THEN Raises(cur, "AttributeError")
    ELSE IF DictIterYieldsKeys
    THEN \* node.parent_node on a str, for the first key of a non-empty dict
         IF DOMAIN ns # {} THEN Raises(cur, "AttributeError")
         ELSE Raises(cur, "Exception")
    ELSE LET input_nodes == {i \in DOMAIN ns :
                               /\ ns[i].parent_node = cur
                               /\ ns[i].node_type = "input"}
         IN IF Cardinality(input_nodes) = 1
            THEN Returns(CHOOSE i \in input_nodes : TRUE, "True")
            ELSE Raises(cur, "Exception")

\* FirstMatch as it would be if the scan kept the last matching edge
LastMatch(es, c) ==
    IF \E k \in 1..Len(es) : es[k].condition_value = c
    THEN CHOOSE k \in 1..Len(es) :
           /\ es[k].condition_value = c
           /\ \A j \in (k + 1)..Len(es) : es[j].condition_value # c
    ELSE 0

\* index of the first edge of es whose label equals c, 0 when there is none
FirstMatch(es, c) ==
    IF \E k \in 1..Len(es) : es[k].condition_value = c
    THEN CHOOSE k \in 1..Len(es) :
           /\ es[k].condition_value = c
           /\ \A j \in 1..(k - 1) : es[j].condition_value # c
    ELSE 0

\* the 'input' branch
JumpInput(ns, cur) ==
    LET es == ns[cur].edges
    IN IF Len(es) = 1
       THEN IF "target" \notin EdgeAttrs THEN Raises(cur, "AttributeError")
            ELSE LET t == es[1].target_node
                 IN IF ~HasNode(ns, t) THEN Raises(t, "AttributeError")
                    ELSE IF ns[t].node_type = "group" THEN FindGroupInput(ns, t)
                    ELSE Returns(t, "None")
       ELSE Raises(cur, "Exception")

\* JumpDefault as it would be without the jump to parent_node
JumpDefaultNoClimb(ns, cur, c) ==
    LET es == ns[cur].edges
        k == IF Truthy(c) THEN FirstMatch(es, c) ELSE 0
    IN IF k # 0 THEN Returns(es[k].target_node, "True")
       ELSE Raises(cur, "Exception")

\* JumpDefault as it would be if a dead end returned False, as a group does
JumpDefaultQuiet(ns, cur, c) ==
    LET es == ns[cur].edges
        k == IF Truthy(c) THEN FirstMatch(es, c) ELSE 0
    IN IF k # 0 THEN Returns(es[k].target_node, "True")
       ELSE IF Truthy(ns[cur].parent_node) THEN Returns(ns[cur].parent_node, "True")
       ELSE Returns(cur, "False")

\* the 'default' / 'output' branch
JumpDefault(ns, cur, c) ==
    LET es == ns[cur].edges
        k == IF Truthy(c) THEN FirstMatch(es, c) ELSE 0
    IN IF k # 0 THEN Returns(es[k].target_node, "True")
       ELSE IF Truthy(ns[cur].parent_node) THEN Returns(ns[cur].parent_node, "True")
       ELSE Raises(cur, "Exception")

\* JumpGroup as it would be if an unmatched group were an error
JumpGroupStrict(ns, cur, c) ==
    LET es == ns[cur].edges
        k == FirstMatch(es, c)
    IN IF k = 0 THEN Raises(cur, "Exception")
       ELSE LET t == es[k].target_node
            IN IF HasNode(ns, t) /\ ns[t].node_type = "group"
               THEN FindGroupInput(ns, cur)
               ELSE Raises(cur, "Exception")

\* the 'group' branch
JumpGroup(ns, cur, c) ==
    LET es == ns[cur].edges
        k == FirstMatch(es, c)
    IN IF k = 0 THEN Returns(cur, "False")
       ELSE LET t == es[k].target_node
            IN IF HasNode(ns, t) /\ ns[t].node_type = "group"
               THEN FindGroupInput(ns, cur)
               ELSE Raises(cur, "Exception")

JumpToNodeByCondition(ns, cur, c) ==
    IF ~HasNode(ns, cur) THEN Raises(cur, "ValueError")
    ELSE IF ns[cur].node_type = "input" THEN JumpInput(ns, cur)
    ELSE IF ns[cur].node_type \in {"default", "output"} THEN JumpDefault(ns, cur, c)
    ELSE IF ns[cur].node_type = "group" THEN JumpGroup(ns, cur, c)
    ELSE Raises(cur, "Exception")

(***************************************************************************)
(* Construction: Graph(), then add_node for every node and add_edge for    *)
(* every edge of a description, nodes first.                               *)
(***************************************************************************)
\* the descriptions the model builds graphs from: node "1" is the start node
\* (Graph.start_node_id), of any type; it alone has outgoing edges
TypesOf(i) ==
    IF i = "1" THEN NodeTypes
    ELSE IF i = "2" THEN {"input", "default"}
    ELSE {"group", "output"}

ParentsOf(i) == IF i \in GroupIds THEN {""} ELSE {""} \cup GroupIds

EdgeSources == {"1"}

EdgePool == {Edge(s, t, c) : s \in EdgeSources, t \in NodeIds, c \in Labels}

RECURSIVE SeqsUpTo(_, _)
SeqsUpTo(S, n) ==
    IF n = 0 THEN {<<>>}
    ELSE LET shorter == SeqsUpTo(S, n - 1)
         IN shorter \cup {Append(q, x) : q \in {r \in shorter : Len(r) = n - 1}, x \in S}

EdgeLists == SeqsUpTo(EdgePool, MaxEdges)

NodeMaps ==
    {f \in [NodeIds -> [node_type : NodeTypes, parent_node : {""} \cup GroupIds]] :
        \A i \in NodeIds : f[i].node_type \in TypesOf(i) /\ f[i].parent_node \in ParentsOf(i)}

RECURSIVE AddEdges(_, _)
AddEdges(ns, es) ==
    IF es = <<>> THEN ns ELSE AddEdges(AddEdge(ns, Head(es)), Tail(es))

Build(f, es) ==
    AddEdges([i \in NodeIds |-> Node(f[i].node_type, f[i].parent_node)], es)

\* Graph.start_node_id and Graph.current_node_id as the constructor sets them
StartNodeId == "1"

\* the node an advance made by workflow w starts from: Graph.get_current_node
\* reads the graph's own cursor, whichever workflow calls
NextStart(w) == current_node_id

NoCall == [caller |-> 0, from |-> "", cond |-> PyNone, cursor |-> "", ret |-> "", raised |-> ""]

\* the executor before GraphExecutor.execute is called: WorkflowManager.__init__,
\* BaseMemory.__init__, Node.conclusion = ""
NoRunner == [pc |-> "idle", pending |-> {}]

\* no call of remove_workflow yet
NoRemove == [flip |-> 0, id |-> 0]

\* no pass of refresh_all_items in progress
NoRefresh == [pc |-> "idle", temp_store |-> <<>>, log |-> <<>>, began |-> <<>>,
              queued |-> {}, quiet |-> TRUE]

\* no Stage or parser call under way
NoStage == [pc |-> "idle"]

\* no /analyze request under way
NoRequest == [pc |-> "idle"]

ExecIdle ==
    /\ conclusion = [i \in NodeIds |-> ""]
    /\ wf = <<>>
    /\ workflows = {}
    /\ tasks = {}
    /\ task_state = <<>>
    /\ new_tasks_event = FALSE
    /\ ready = <<>>
    /\ runner = NoRunner
    /\ action_map = <<>>
    /\ dicts = <<>>
    /\ excepted = {}
    /\ removed = NoRemove
    /\ memory_store = <<>>
    /\ clock = 1
    /\ refresh = NoRefresh
    /\ memory_class = "BaseMemory"
    /\ stores = 0
    /\ stage = NoStage

Init ==
    /\ \E f \in NodeMaps, es \in EdgeLists :
         /\ nodes = Build(f, es)
         /\ edges = es
    /\ current_node_id = StartNodeId
    /\ last = NoCall
    /\ advances = 0
    /\ ExecIdle
    /\ request = NoRequest

\* a workflow task calls graph.jump_to_node_by_condition(c)
Jump(w, c) ==
    /\ advances < MaxAdvances
    /\ LET out == JumpToNodeByCondition(nodes, NextStart(w), c)
       IN /\ current_node_id' = out.cursor
          /\ last' = [caller |-> w, from |-> NextStart(w), cond |-> c,
                      cursor |-> out.cursor, ret |-> out.ret, raised |-> out.raised]
          /\ advances' = IF out.raised = "" /\ out.ret # "False" THEN advances + 1 ELSE advances
    /\ UNCHANGED <<nodes, edges>>
    /\ UNCHANGED execVars
    /\ UNCHANGED auxVars

Next == \E w \in Callers, c \in Conditions : Jump(w, c)

Spec == Init /\ [][Next]_vars

(***************************************************************************)
(* Graph.add_node and Graph.add_edge called one by one, in any order, on a *)
(* Graph that starts empty.                                                *)
(***************************************************************************)
BuildNodeIds == {"1", "2"}
BuildEdgePool == {Edge(s, t, c) : s \in BuildNodeIds, t \in {"2", "3"}, c \in Labels}

\* Node.get_reachable_nodes
GetReachableNodes(n) == [k \in 1..Len(n.edges) |-> n.edges[k].target_node]

\* Node.get_node_if_statement: the condition values that are truthy
RECURSIVE GetNodeIfStatement(_)
GetNodeIfStatement(es) ==
    IF es = <<>> THEN <<>>
    ELSE (IF Truthy(Head(es).condition_value) THEN <<Head(es).condition_value>> ELSE <<>>)
         \o GetNodeIfStatement(Tail(es))

InitBuild ==
    /\ nodes = <<>>
    /\ edges = <<>>
    /\ current_node_id = StartNodeId
    /\ last = NoCall
    /\ advances = 0
    /\ ExecIdle
    /\ request = NoRequest

\* graph.add_node(Node(node_id, ...)): the node is new and has no edges
GraphAddNode(id) ==
    /\ nodes' = AddNode(nodes, id, Node("default", ""))
    /\ UNCHANGED <<edges, current_node_id, last, advances>>
    /\ UNCHANGED execVars
    /\ UNCHANGED auxVars

\* graph.add_edge(edge)
GraphAddEdge(e) ==
    /\ Len(edges) < MaxEdges
    /\ edges' = Append(edges, e)
    /\ nodes' = AddEdge(nodes, e)
    /\ UNCHANGED <<current_node_id, last, advances>>
    /\ UNCHANGED execVars
    /\ UNCHANGED auxVars

NextBuild ==
    \/ \E id \in BuildNodeIds : GraphAddNode(id)
    \/ \E e \in BuildEdgePool : GraphAddEdge(e)

SpecBuild == InitBuild /\ [][NextBuild]_vars

(***************************************************************************)
(* Loading: the /analyze request of app/agent.py.  analyze_pod runs        *)
(* perform_checks on the description, then GraphManager.from_data builds   *)
(* the graph with Graph.from_flow_data_map, then the agent is executed.    *)
(* `request` holds the description (its nodes, in the order of the list,   *)
(* and its edges), the result check_graph_structure emitted, what          *)
(* perform_checks returned and how far analyze_pod got.                    *)
(***************************************************************************)
\* check_graph_structure: the description passes all seven rules
GraphStructureOk(f, es) ==
    LET input_nodes == {i \in DOMAIN f : f[i].node_type = "input" /\ f[i].parent_node = ""}
        group_nodes == {i \in DOMAIN f : f[i].node_type = "group"}
        Out(i) == {k \in 1..Len(es) : es[k].source_node = i}
    IN /\ Cardinality(input_nodes) = 1
       /\ \A g \in group_nodes :
            Cardinality({i \in DOMAIN f : f[i].node_type = "input" /\ f[i].parent_node = g}) = 1
       /\ \A i \in input_nodes : Cardinality(Out(i)) = 1
       /\ \A g \in group_nodes : \A k \in Out(g) :
            es[k].target_node \in DOMAIN f => f[es[k].target_node].node_type = "group"
       /\ \A k \in 1..Len(es) :
            (es[k].target_node \in DOMAIN f /\ f[es[k].target_node].node_type = "group"
             /\ es[k].source_node \in DOMAIN f)
            => f[es[k].source_node].node_type \notin {"default", "output"}
       /\ \A i \in DOMAIN f :
            f[i].node_type \in {"default", "output"} => Truthy(f[i].parent_node)
       /\ \A i \in DOMAIN f :
            \E k \in 1..Len(es) : es[k].source_node = i \/ es[k].target_node = i

\* what perform_checks returns
PerformChecksReturns(f, es) == TRUE

\* the node from_flow_data_map leaves in start_node_id: the last node of the
\* list whose type is "input", or None
StartOf(f) ==
    IF f["3"].node_type = "input" THEN "3"
    ELSE IF f["2"].node_type = "input" THEN "2"
    ELSE IF f["1"].node_type = "input" THEN "1"
    ELSE PyNone

InitLoad ==
    /\ nodes = <<>>
    /\ edges = <<>>
    /\ current_node_id = PyNone
    /\ last = NoCall
    /\ advances = 0
    /\ ExecIdle
    /\ \E f \in NodeMaps, es \in EdgeLists :
         request = [pc |-> "received", nodes |-> f, edges |-> es, emitted |-> "", error |-> ""]

LoadFrame ==
    /\ UNCHANGED <<last, advances>>
    /\ UNCHANGED execVars
    /\ UNCHANGED <<removed, memory_store, clock, refresh, memory_class, stores, stage>>

\* analyze_pod: 'if not perform_checks(json_list)'; the checks emit their
\* results and set their events
PerformChecks ==
    /\ request.pc = "received"
    /\ request' = [request EXCEPT
                     !.emitted = IF GraphStructureOk(request.nodes, request.edges)
                                 THEN "success" ELSE "failed",
                     !.pc = IF PerformChecksReturns(request.nodes, request.edges)
                            THEN "checked" ELSE "answered",
                     !.error = IF PerformChecksReturns(request.nodes, request.edges)
                               THEN "" ELSE "400"]
    /\ UNCHANGED <<nodes, edges, current_node_id>>
    /\ LoadFrame

\* GraphManager.from_data: Graph.from_flow_data_map on the description
FromFlowDataMap ==
    /\ request.pc = "checked"
    /\ IF StartOf(request.nodes) = PyNone
       THEN /\ request' = [request EXCEPT !.pc = "answered", !.error = "500"]
            /\ UNCHANGED <<nodes, edges, current_node_id>>
       ELSE /\ request' = [request EXCEPT !.pc = "loaded"]
            /\ nodes' = Build(request.nodes, request.edges)
            /\ edges' = request.edges
            /\ current_node_id' = StartOf(request.nodes)
    /\ LoadFrame

\* agent.execute(): the traversal of the graph starts
AgentExecute ==
    /\ request.pc = "loaded"
    /\ request' = [request EXCEPT !.pc = "traversing"]
    /\ UNCHANGED <<nodes, edges, current_node_id>>
    /\ LoadFrame

NextLoad ==
    \/ PerformChecks
    \/ FromFlowDataMap
    \/ AgentExecute

SpecLoad == InitLoad /\ [][NextLoad]_vars

(***************************************************************************)
(* GraphExecutor and WorkflowManager.  Tasks are asyncio tasks of one event *)
(* loop: `ready` is the loop's FIFO queue, one callback runs at a time, and *)
(* a coroutine gives up control only at an await that suspends.            *)
(***************************************************************************)
\* what a Stage call yields: a label, or an exception
StageFails == "<raise>"
StageAnswers == {"yes", "ok", StageFails}

\* Node.action, Node.question and Node.description of the nodes of the model
NodeAction(ns, i) == IF ns[i].node_type = "default" THEN "check" ELSE ""
NodeQuestion(i) == "q"
NodeDescription(i) == "d"

\* the positional parameters of Graph.jump_to_node_by_condition after self
JumpParams == <<"condition_value">>
\* the arguments GraphExecutor passes to it at an input node, and at a default
\* or group node
EntryJumpArgs == <<"workflow.current_node_id">>
ConditionJumpArgs == <<"workflow.current_node_id", "conclusion">>

\* the methods of QuestionNodePair, and the one GraphExecutor calls
QuestionNodePairMethods == {"add_node_ids", "to_dict", "from_dict"}
PairMethodCalled == "add_nodes"

\* the required positional parameters of StageUtils.run_action_and_set_conclusion
\* and the arguments GraphExecutor passes
RunActionRequired == <<"pair", "extract_stage", "pod">>
RunActionArgs == <<"pair", "self.extract_stage">>

\* the parameters of the MemoryItemFactory methods and the keywords passed
CreateMemoryItemParams == {"action", "observation", "description", "question", "node_ids"}
CreateMemoryItemKeywords == {"action", "question", "pod", "nodes"}
CreateErrorMemoryItemParams == {"description", "node_ids"}
CreateErrorMemoryItemKeywords == {"description", "pod", "nodes"}

\* a dict held as Workflow.context: the keys 'branch' (set by the fork) and
\* 'note' (the key callers of update_context set); "" is an absent key
EmptyContext == [branch |-> "", note |-> ""]
ContextValues == {"x"}

\* Workflow.__init__; context is the identity of the dict the workflow holds
Workflow(node_id, context) ==
    [current_node_id |-> node_id, history |-> <<>>, context |-> context]

\* dict.copy(): a new dict object with the entries of dict r
ContextAlias(ds, r) == [dicts |-> ds, ref |-> r]
ContextCopy(ds, r) == [dicts |-> Append(ds, ds[r]), ref |-> Len(ds) + 1]

\* GraphExecutor.split_workflows_before_action: for every branch a copy of the
\* context of the workflow, held in dict r, with 'branch' set
RECURSIVE SplitWorkflows(_, _, _)
SplitWorkflows(ds, r, branches) ==
    IF branches = <<>> THEN [dicts |-> ds, refs |-> <<>>]
    ELSE LET c == ContextCopy(ds, r)
             new_context == [c.dicts EXCEPT ![c.ref].branch = Head(branches)]
             rest == SplitWorkflows(new_context, r, Tail(branches))
         IN [dicts |-> rest.dicts, refs |-> <<c.ref>> \o rest.refs]

\* QuestionNodePair.add_node_ids on question_node_map, a dict kept here as the
\* sequence of its entries in insertion order; ids is the set of node ids
AddNodeIdsReplace(qs, question, ids) ==
    IF \E k \in 1..Len(qs) : qs[k].question = question
    THEN [k \in 1..Len(qs) |-> IF qs[k].question = question
                               THEN [qs[k] EXCEPT !.node_ids = ids] ELSE qs[k]]
    ELSE Append(qs, [question |-> question, node_ids |-> ids])
AddNodeIds(qs, question, ids) ==
    IF \E k \in 1..Len(qs) : qs[k].question = question
    THEN [k \in 1..Len(qs) |-> IF qs[k].question = question
                               THEN [qs[k] EXCEPT !.node_ids = @ \cup ids] ELSE qs[k]]
    ELSE Append(qs, [question |-> question, node_ids |-> ids])

\* MemoryItemFactory.create_memory_item / create_error_memory_item; node_id is
\* a str, which add_node_ids turns into a set
MemoryItem(action, observation, description, question, node_id, timestamp) ==
    [action |-> action, observation |-> observation, description |-> description,
     questions |-> AddNodeIds(<<>>, question, {node_id}), timestamp |-> timestamp]

\* the loop of BaseMemory.store_data over the question_node_map of the item
RECURSIVE MergeQuestions(_, _)
MergeQuestions(qs, new) ==
    IF new = <<>> THEN qs
    ELSE MergeQuestions(AddNodeIds(qs, Head(new).question, Head(new).node_ids), Tail(new))

\* BaseMemory.store_data, the action index
StoreData(am, item) ==
    IF item.action \in DOMAIN am
    THEN [am EXCEPT ![item.action].questions = MergeQuestions(@, item.questions),
                    ![item.action].timestamp = item.timestamp]
    ELSE [a \in DOMAIN am \cup {item.action} |-> IF a = item.action THEN item ELSE am[a]]

\* GraphExecutor.execute: the initial workflow and its task, then
\* run_all_tasks up to its first await
Execute ==
    /\ runner.pc = "idle"
    /\ wf' = Append(wf, Workflow(StartNodeId, Len(dicts) + 1))
    /\ dicts' = Append(dicts, EmptyContext)
    /\ workflows' = workflows \cup {Len(wf) + 1}
    /\ task_state' = Append(task_state, "pending")
    /\ tasks' = tasks \cup {Len(wf) + 1}
    /\ ready' = Append(ready, [kind |-> "task", id |-> Len(wf) + 1])
    /\ new_tasks_event' = FALSE
    /\ runner' = [pc |-> "wait", pending |-> {Len(wf) + 1}]
    /\ UNCHANGED <<conclusion, action_map, excepted>>
    /\ UNCHANGED graphVars
    /\ UNCHANGED auxVars

\* the outcome of one pass of the loop of GraphExecutor.process_workflow:
\* forks (branch targets of the workflows split off), the conclusions, the
\* memory, the graph's cursor, the workflow's cursor and history, and whether
\* the pass ended the workflow: "break" (remove_workflow, break), "except"
\* (the except handler: remove_workflow, break) or "" (the loop goes on)
Pass(forks, concl, mem, cur, node, hist, ended) ==
    [forks |-> forks, conclusion |-> concl, action_map |-> mem, cursor |-> cur,
     node |-> node, history |-> hist, ended |-> ended]

\* what the executor does with the value jump_to_node_by_condition returned
AfterJump(forks, concl, mem, out, node, hist) ==
    IF out.raised # "" THEN Pass(forks, concl, mem, out.cursor, node, hist, "except")
    ELSE IF out.ret = "True" THEN Pass(forks, concl, mem, out.cursor, "True", hist, "")
    ELSE Pass(forks, concl, mem, out.cursor, node, hist, "break")

\* input node
PassInput(w, hist) ==
    LET node == wf[w].current_node_id
    IN IF Len(EntryJumpArgs) > Len(JumpParams)
       THEN Pass(<<>>, conclusion, action_map, current_node_id, node, hist, "except")
       ELSE AfterJump(<<>>, conclusion, action_map,
                      JumpToNodeByCondition(nodes, current_node_id, node), node, hist)

\* default node; a is what the extraction Stage yields
PassDefault(w, hist, a) ==
    LET node == wf[w].current_node_id
        es == nodes[node].edges
        forks == [k \in 1..Len(es) |-> es[k].target_node]
        \* run_action_and_set_conclusion logs a Stage failure and goes on
        concl == IF a = StageFails THEN conclusion ELSE [conclusion EXCEPT ![node] = a]
        mem == StoreData(action_map,
                         MemoryItem(NodeAction(nodes, node), "", "", NodeQuestion(node), node, clock))
    IN IF PairMethodCalled \notin QuestionNodePairMethods
       THEN Pass(forks, conclusion, action_map, current_node_id, node, hist, "except")
       ELSE IF Len(RunActionArgs) < Len(RunActionRequired)
       THEN Pass(forks, conclusion, action_map, current_node_id, node, hist, "except")
       ELSE IF ~(CreateMemoryItemKeywords \subseteq CreateMemoryItemParams)
       THEN Pass(forks, concl, action_map, current_node_id, node, hist, "except")
       ELSE IF Len(ConditionJumpArgs) > Len(JumpParams)
       THEN Pass(forks, concl, mem, current_node_id, node, hist, "except")
       ELSE AfterJump(forks, concl, mem,
                      JumpToNodeByCondition(nodes, current_node_id, concl[node]), node, hist)

\* output node
PassOutput(w, hist) ==
    LET node == wf[w].current_node_id
        mem == StoreData(action_map,
                         MemoryItem("error", "error", NodeDescription(node),
                                    NodeDescription(node), node, clock))
    IN IF ~(CreateErrorMemoryItemKeywords \subseteq CreateErrorMemoryItemParams)
       THEN Pass(<<>>, conclusion, action_map, current_node_id, node, hist, "except")
       ELSE Pass(<<>>, conclusion, mem, current_node_id, node, hist, "break")

\* group node; a is what the conclusion Stage yields
PassGroup(w, hist, a) ==
    LET node == wf[w].current_node_id
        concl == [conclusion EXCEPT ![node] = a]
    IN IF a = StageFails
       THEN Pass(<<>>, conclusion, action_map, current_node_id, node, hist, "except")
       ELSE IF Len(ConditionJumpArgs) > Len(JumpParams)
       THEN Pass(<<>>, concl, action_map, current_node_id, node, hist, "except")
       ELSE AfterJump(<<>>, concl, action_map,
                      JumpToNodeByCondition(nodes, current_node_id, a), node, hist)

\* Workflow.add_to_history
AddToHistorySkipped(history, node_id) == history
AddToHistory(history, node_id) == Append(history, node_id)

ProcessWorkflowPass(w, a) ==
    LET node == wf[w].current_node_id
        hist == AddToHistory(wf[w].history, node)
    IN IF ~HasNode(nodes, node)
       THEN Pass(<<>>, conclusion, action_map, current_node_id, node, wf[w].history, "break")
       ELSE IF nodes[node].node_type = "input" THEN PassInput(w, hist)
       ELSE IF nodes[node].node_type = "default" THEN PassDefault(w, hist, a)
       ELSE IF nodes[node].node_type = "output" THEN PassOutput(w, hist)
       ELSE IF nodes[node].node_type = "group" THEN PassGroup(w, hist, a)
       ELSE Pass(<<>>, conclusion, action_map, current_node_id, node, hist, "")

\* the state of task w when its coroutine returns after the pass: remove_workflow
\* has called task.cancel() on it if it was still tracked
TaskEnds(w) == IF w \in tasks THEN "cancelled" ELSE "finished"

\* the event loop runs the task of workflow w, first in its queue, for one pass
\* of the loop of process_workflow
RunTask(w, a) ==
    /\ ready # <<>>
    /\ Head(ready) = [kind |-> "task", id |-> w]
    /\ LET p == ProcessWorkflowPass(w, a)
           n == Len(wf)
           k == Len(p.forks)
           me == [wf[w] EXCEPT !.current_node_id = p.node, !.history = p.history]
           split == SplitWorkflows(dicts, wf[w].context, p.forks)
           children == [j \in 1..k |-> Workflow(wf[w].current_node_id, split.refs[j])]
           started == [j \in 1..k |-> [kind |-> "task", id |-> n + j]]
           \* add_task sets new_tasks_event, which wakes run_all_tasks if it waits on it
           woken == IF k > 0 /\ runner.pc = "event_wait"
                    THEN <<[kind |-> "runner", id |-> 0]>> ELSE <<>>
           \* a task of the set asyncio.wait watches has finished
           notify == IF p.ended # "" /\ runner.pc = "wait" /\ w \in runner.pending
                     THEN <<[kind |-> "cb", id |-> w]>> ELSE <<>>
       IN /\ n + k <= MaxWorkflows
          /\ wf' = [wf EXCEPT ![w] = me] \o children
          /\ workflows' = (workflows \cup (n + 1)..(n + k)) \ (IF p.ended # "" THEN {w} ELSE {})
          /\ tasks' = (tasks \cup (n + 1)..(n + k)) \ (IF p.ended # "" THEN {w} ELSE {})
          /\ task_state' = [task_state EXCEPT ![w] = IF p.ended # "" THEN TaskEnds(w) ELSE @]
                              \o [j \in 1..k |-> "pending"]
          /\ new_tasks_event' = (new_tasks_event \/ k > 0)
          /\ ready' = (IF p.ended # "" THEN Tail(ready) ELSE ready) \o started \o woken \o notify
          /\ dicts' = split.dicts
          /\ excepted' = IF p.ended = "except" THEN excepted \cup {w} ELSE excepted
          /\ runner' = IF woken # <<>> THEN [runner EXCEPT !.pc = "event_woken"] ELSE runner
          /\ conclusion' = p.conclusion
          /\ action_map' = p.action_map
          /\ current_node_id' = p.cursor
    /\ UNCHANGED <<nodes, edges, last, advances>>
    /\ UNCHANGED auxVars

\* asyncio.wait's completion callback: the first one wakes run_all_tasks
OnCompletion ==
    /\ ready # <<>>
    /\ Head(ready).kind = "cb"
    /\ IF runner.pc = "wait"
       THEN /\ runner' = [runner EXCEPT !.pc = "woken"]
            /\ ready' = Append(Tail(ready), [kind |-> "runner", id |-> 0])
       ELSE /\ runner' = runner
            /\ ready' = Tail(ready)
    /\ UNCHANGED <<conclusion, wf, workflows, tasks, task_state, new_tasks_event, action_map,
                   dicts, excepted>>
    /\ UNCHANGED graphVars
    /\ UNCHANGED auxVars

\* not task.done()
NotDone(st) == st \in {"pending", "cancelling"}

\* run_all_tasks from the top of its loop to its next await or its return
RunAllTasksLoop ==
    LET pending_tasks == {t \in tasks : NotDone(task_state[t])}
    IN IF tasks = {} \/ pending_tasks = {}
       THEN /\ runner' = [pc |-> "returned", pending |-> {}]
            /\ new_tasks_event' = new_tasks_event
       ELSE /\ runner' = [pc |-> "wait", pending |-> pending_tasks]
            /\ new_tasks_event' = FALSE

\* run_all_tasks resumes: after asyncio.wait it asks every finished task for its
\* exception, which raises CancelledError for a cancelled task, then waits for
\* new_tasks_event; after new_tasks_event it loops
RunAllTasksResume ==
    /\ ready # <<>>
    /\ Head(ready).kind = "runner"
    /\ ready' = Tail(ready)
    /\ IF runner.pc = "woken"
       THEN LET done == {t \in runner.pending : ~NotDone(task_state[t])}
            IN IF \E t \in done : task_state[t] = "cancelled"
               THEN /\ runner' = [pc |-> "raised", pending |-> {}]
                    /\ new_tasks_event' = new_tasks_event
               ELSE IF new_tasks_event
               THEN RunAllTasksLoop
               ELSE /\ runner' = [pc |-> "event_wait", pending |-> {}]
                    /\ new_tasks_event' = new_tasks_event
       ELSE RunAllTasksLoop
    /\ UNCHANGED <<conclusion, wf, workflows, tasks, task_state, action_map, dicts, excepted>>
    /\ UNCHANGED graphVars
    /\ UNCHANGED auxVars

\* Workflow.update_context(key, value) called on workflow w with key 'note'
UpdateContext(w, v) ==
    /\ w \in 1..Len(wf)
    /\ dicts[wf[w].context].note # v
    /\ dicts' = [dicts EXCEPT ![wf[w].context].note = v]
    /\ UNCHANGED <<conclusion, wf, workflows, tasks, task_state, new_tasks_event, ready, runner,
                   action_map, excepted>>
    /\ UNCHANGED graphVars
    /\ UNCHANGED auxVars

\* the graphs the executor is run on: every node map of the model, with one of
\* these edge lists ("1" -> "2" -> "3" is the end-to-end scenario)
ExecEdgeLists ==
    { <<>>,
      <<Edge("1", "2", "")>>,
      <<Edge("1", "2", ""), Edge("2", "3", "ok")>>,
      <<Edge("1", "2", "yes"), Edge("1", "3", "ok")>> }

InitExec ==
    /\ \E f \in NodeMaps, es \in ExecEdgeLists :
         /\ nodes = Build(f, es)
         /\ edges = es
    /\ current_node_id = StartNodeId
    /\ last = NoCall
    /\ advances = 0
    /\ ExecIdle
    /\ request = NoRequest

NextExec ==
    \/ Execute
    \/ \E w \in 1..MaxWorkflows, a \in StageAnswers : RunTask(w, a)
    \/ OnCompletion
    \/ RunAllTasksResume
    \/ \E w \in 1..MaxWorkflows, v \in ContextValues : UpdateContext(w, v)

SpecExec == InitExec /\ [][NextExec]_vars

\* the executor on a graph that may lack the node Graph.start_node_id names
\* (a Graph() to which no node "1" was added)
InitHistory ==
    /\ \E f \in NodeMaps, es \in ExecEdgeLists, ids \in {NodeIds, NodeIds \ {StartNodeId}} :
         /\ nodes = [i \in ids |-> Build(f, es)[i]]
         /\ edges = es
    /\ current_node_id = StartNodeId
    /\ last = NoCall
    /\ advances = 0
    /\ ExecIdle
    /\ request = NoRequest

SpecHistory == InitHistory /\ [][NextExec]_vars

(***************************************************************************)
(* WorkflowManager on its own: callers create workflows, register tasks,   *)
(* remove workflows and run run_all_tasks; a task returns, raises, or      *)
(* removes its own workflow and returns.                                   *)
(***************************************************************************)
TaskBodies == {"return", "raise", "remove_self"}
RemoveIds == 1..(MaxManaged + 1)

\* WorkflowManager.remove_workflow: the ids tracked in the two maps afterwards
RemoveWorkflowKeepsTask(ws, ts, id) == [workflows |-> ws \ {id}, tasks |-> ts]
RemoveWorkflowMaps(ws, ts, id) == [workflows |-> ws \ {id}, tasks |-> ts \ {id}]

\* task.cancel() on a task that is not running: a task that is not done is
\* cancelled when the event loop next runs it
CancelTask(st, id) == IF st[id] = "pending" THEN [st EXCEPT ![id] = "cancelling"] ELSE st

\* WorkflowManager.create_workflow(current_node_id)
CreateWorkflow ==
    /\ Len(wf) < MaxManaged
    /\ wf' = Append(wf, Workflow(StartNodeId, Len(dicts) + 1))
    /\ dicts' = Append(dicts, EmptyContext)
    /\ workflows' = workflows \cup {Len(wf) + 1}
    /\ task_state' = Append(task_state, "none")
    /\ UNCHANGED <<conclusion, tasks, new_tasks_event, ready, runner, action_map, excepted>>
    /\ UNCHANGED graphVars
    /\ UNCHANGED auxVars

\* asyncio.create_task for workflow w, then WorkflowManager.add_task
AddTask(w) ==
    /\ w \in 1..Len(wf)
    /\ task_state[w] = "none"
    /\ task_state' = [task_state EXCEPT ![w] = "pending"]
    /\ tasks' = tasks \cup {w}
    /\ new_tasks_event' = TRUE
    /\ ready' = Append(ready, [kind |-> "task", id |-> w])
                  \o (IF runner.pc = "event_wait" THEN <<[kind |-> "runner", id |-> 0]>> ELSE <<>>)
    /\ runner' = IF runner.pc = "event_wait" THEN [runner EXCEPT !.pc = "event_woken"] ELSE runner
    /\ UNCHANGED <<conclusion, wf, workflows, action_map, dicts, excepted>>
    /\ UNCHANGED graphVars
    /\ UNCHANGED auxVars

\* WorkflowManager.remove_workflow(id), called from outside the task of id
RemoveWorkflow(id) ==
    /\ LET m == RemoveWorkflowMaps(workflows, tasks, id)
       IN /\ workflows' = m.workflows
          /\ tasks' = m.tasks
    /\ task_state' = IF id \in tasks THEN CancelTask(task_state, id) ELSE task_state
    /\ removed' = [flip |-> 1 - removed.flip, id |-> id]
    /\ UNCHANGED <<conclusion, wf, new_tasks_event, ready, runner, action_map, dicts, excepted>>
    /\ UNCHANGED graphVars
    /\ UNCHANGED memVars

\* the event loop runs the task of workflow w, first in its queue, to its end;
\* a task cancelled before it ran ends without running its body
TaskStep(w, body) ==
    /\ ready # <<>>
    /\ Head(ready) = [kind |-> "task", id |-> w]
    /\ LET runs == task_state[w] # "cancelling"
           removes == runs /\ body = "remove_self"
           m == IF removes THEN RemoveWorkflowMaps(workflows, tasks, w)
                ELSE [workflows |-> workflows, tasks |-> tasks]
           ends == IF ~runs THEN "cancelled"
                   ELSE IF body = "return" THEN "finished"
                   ELSE IF body = "raise" THEN "failed"
                   ELSE TaskEnds(w)
           notify == IF runner.pc = "wait" /\ w \in runner.pending
                     THEN <<[kind |-> "cb", id |-> w]>> ELSE <<>>
       IN /\ workflows' = m.workflows
          /\ tasks' = m.tasks
          /\ task_state' = [task_state EXCEPT ![w] = ends]
          /\ ready' = Tail(ready) \o notify
          /\ removed' = IF removes THEN [flip |-> 1 - removed.flip, id |-> w] ELSE removed
    /\ UNCHANGED <<conclusion, wf, new_tasks_event, runner, action_map, dicts, excepted>>
    /\ UNCHANGED graphVars
    /\ UNCHANGED memVars

\* a caller awaits WorkflowManager.run_all_tasks(): it runs to its first await
\* or returns at once
StartRunAllTasks ==
    /\ runner.pc = "idle"
    /\ RunAllTasksLoop
    /\ UNCHANGED <<conclusion, wf, workflows, tasks, task_state, ready, action_map, dicts, excepted>>
    /\ UNCHANGED graphVars
    /\ UNCHANGED auxVars

InitManager ==
    /\ nodes = Build([i \in NodeIds |-> Node("input", "")], <<>>)
    /\ edges = <<>>
    /\ current_node_id = StartNodeId
    /\ last = NoCall
    /\ advances = 0
    /\ ExecIdle
    /\ request = NoRequest

\* what the event loop does next: the callback at the head of its queue
LoopStep ==
    \/ \E w \in 1..MaxManaged, body \in TaskBodies : TaskStep(w, body)
    \/ OnCompletion
    \/ RunAllTasksResume

NextManager ==
    \/ CreateWorkflow
    \/ \E w \in 1..MaxManaged : AddTask(w)
    \/ \E id \in RemoveIds : RemoveWorkflow(id)
    \/ StartRunAllTasks
    \/ LoopStep

SpecManager == InitManager /\ [][NextManager]_vars

\* the event loop keeps running its queue, and run_all_tasks is called
SpecManagerLive ==
    /\ InitManager
    /\ [][NextManager]_vars
    /\ WF_vars(LoopStep)
    /\ WF_vars(StartRunAllTasks)

(***************************************************************************)
(* remove_workflow against a task that is inside the step of a Decision    *)
(* node: the step from its await of run_action_and_set_conclusion to the   *)
(* storing of its memory record.                                           *)
(***************************************************************************)
InitCancel ==
    /\ nodes = Build([i \in NodeIds |-> Node("default", "")], <<>>)
    /\ edges = <<>>
    /\ current_node_id = StartNodeId
    /\ last = NoCall
    /\ advances = 0
    /\ conclusion = [i \in NodeIds |-> ""]
    /\ wf = [w \in 1..MaxManaged |-> Workflow(IF w = 1 THEN "1" ELSE "2", w)]
    /\ workflows = 1..MaxManaged
    /\ tasks = 1..MaxManaged
    /\ task_state = [w \in 1..MaxManaged |-> "pending"]
    /\ new_tasks_event = TRUE
    /\ ready = [w \in 1..MaxManaged |-> [kind |-> "task", id |-> w]]
    /\ runner = NoRunner
    /\ action_map = <<>>
    /\ dicts = [w \in 1..MaxManaged |-> EmptyContext]
    /\ excepted = {}
    /\ removed = NoRemove
    /\ memory_store = <<>>
    /\ clock = 1
    /\ refresh = NoRefresh
    /\ memory_class = "BaseMemory"
    /\ stores = 0
    /\ stage = [pc |-> "steps",
                pos |-> [w \in 1..MaxManaged |-> "start"],
                extracted |-> [w \in 1..MaxManaged |-> FALSE],
                assigned |-> [w \in 1..MaxManaged |-> FALSE],
                stored |-> [w \in 1..MaxManaged |-> FALSE]]
    /\ request = NoRequest

\* the task of w runs for the first time: a task cancelled before it started
\* ends without running; otherwise process_workflow appends to the history,
\* builds the pair and suspends at 'await run_action_and_set_conclusion',
\* whose gather has scheduled the task of _process_question_nodes
StepBegins(w) ==
    /\ ready # <<>>
    /\ Head(ready) = [kind |-> "task", id |-> w]
    /\ stage.pos[w] = "start"
    /\ IF task_state[w] = "cancelling"
       THEN /\ task_state' = [task_state EXCEPT ![w] = "cancelled"]
            /\ stage' = [stage EXCEPT !.pos[w] = "never"]
            /\ ready' = Tail(ready)
            /\ UNCHANGED wf
       ELSE /\ wf' = [wf EXCEPT ![w].history = AddToHistory(@, wf[w].current_node_id)]
            /\ stage' = [stage EXCEPT !.pos[w] = "await"]
            /\ ready' = Append(Tail(ready), [kind |-> "extract", id |-> w])
            /\ UNCHANGED task_state
    /\ UNCHANGED <<conclusion, workflows, tasks, new_tasks_event, runner, action_map, dicts,
                   excepted, removed, memory_store, clock, refresh, memory_class, stores, request>>
    /\ UNCHANGED graphVars

\* the task of _process_question_nodes comes up: task.cancel() on a task that
\* waits on the gather cancels the gather and with it this task, which then
\* never runs; otherwise it assigns the conclusion the Stage gives, or logs
\* the failure of the Stage.  Either way the task of w is woken.
ExtractTask(w, a) ==
    /\ ready # <<>>
    /\ Head(ready) = [kind |-> "extract", id |-> w]
    /\ IF task_state[w] = "cancelling"
       THEN UNCHANGED <<conclusion, stage>>
       ELSE /\ stage' = [stage EXCEPT !.extracted[w] = TRUE, !.assigned[w] = (a # StageFails)]
            /\ conclusion' = IF a = StageFails THEN conclusion
                             ELSE [conclusion EXCEPT ![wf[w].current_node_id] = a]
    /\ ready' = Append(Tail(ready), [kind |-> "task", id |-> w])
    /\ UNCHANGED <<wf, workflows, tasks, task_state, new_tasks_event, runner, action_map, dicts,
                   excepted, removed, memory_store, clock, refresh, memory_class, stores, request>>
    /\ UNCHANGED graphVars

\* the task of w is resumed at its await: with a cancellation requested
\* CancelledError is raised there, which no 'except Exception' catches, and
\* the task ends; otherwise the step stores its memory record, after which
\* the workflow removes itself and ends
StepResumes(w) ==
    /\ ready # <<>>
    /\ Head(ready) = [kind |-> "task", id |-> w]
    /\ stage.pos[w] = "await"
    /\ ready' = Tail(ready)
    /\ stage' = [stage EXCEPT !.pos[w] = "ended",
                              !.stored[w] = (task_state[w] # "cancelling")]
    /\ IF task_state[w] = "cancelling"
       THEN /\ task_state' = [task_state EXCEPT ![w] = "cancelled"]
            /\ UNCHANGED <<workflows, tasks, removed, action_map>>
       ELSE LET node == wf[w].current_node_id
                m == RemoveWorkflowMaps(workflows, tasks, w)
            IN /\ action_map' = StoreData(action_map,
                                  MemoryItem(NodeAction(nodes, node), "", "", NodeQuestion(node),
                                             node, clock))
               /\ workflows' = m.workflows
               /\ tasks' = m.tasks
               /\ task_state' = [task_state EXCEPT ![w] = TaskEnds(w)]
               /\ removed' = [flip |-> 1 - removed.flip, id |-> w]
    /\ UNCHANGED <<conclusion, wf, new_tasks_event, runner, dicts, excepted,
                   memory_store, clock, refresh, memory_class, stores, request>>
    /\ UNCHANGED graphVars

NextCancel ==
    \/ \E w \in 1..MaxManaged : StepBegins(w)
    \/ \E w \in 1..MaxManaged, a \in StageAnswers : ExtractTask(w, a)
    \/ \E w \in 1..MaxManaged : StepResumes(w)
    \/ \E id \in RemoveIds : RemoveWorkflow(id)

SpecCancel == InitCancel /\ [][NextCancel]_vars

(***************************************************************************)
(* The memory store: BaseMemory (bean/memory/BaseMemory.py, records of     *)
(* NodeMemoryItem.py) and baseMemory (bean/memory/baseMemory.py, records   *)
(* of MemoryItem.py).  store_data is called by the workflow thread;        *)
(* refresh_all_items runs in the thread start_automatic_refresh starts,    *)
(* one pop of the queue at a time.                                         *)
(***************************************************************************)
MemoryClasses == {"BaseMemory", "baseMemory"}
MemActions == {"a", "b"}
Observations == {"o1", "o2"}
\* the (question, node_id) pairs items are created with
QuestionPairs == {<<"q1", "1">>, <<"q1", "2">>, <<"q2", "1">>}

\* what execute_action yields: an output, or ValidationError
ExecuteFails == "<ValidationError>"
ExecuteResults == {"out", ExecuteFails}

\* the order of Python str on the action strings of the model
ActionRank(a) == IF a = "a" THEN 1 ELSE 2

\* an entry (-timestamp, action) of memory_store, and the order of tuples
Entry(ts, a) == [neg |-> 0 - ts, action |-> a]
EntryLess(x, y) ==
    \/ x.neg < y.neg
    \/ x.neg = y.neg /\ ActionRank(x.action) < ActionRank(y.action)

\* heapq._siftdown(heap, startpos, pos) with newitem = heap[pos]; positions
\* count from 1, so the parent of i is i \div 2
RECURSIVE SiftDown(_, _, _, _)
SiftDown(h, start, i, newitem) ==
    IF i > start /\ EntryLess(newitem, h[i \div 2])
    THEN SiftDown([h EXCEPT ![i] = h[i \div 2]], start, i \div 2, newitem)
    ELSE [h EXCEPT ![i] = newitem]

\* heapq.heappush
HeapPush(h, x) == SiftDown(Append(h, x), 1, Len(h) + 1, x)

\* the loop of heapq._siftup: the smaller child moves up until a leaf is reached
RECURSIVE SiftUpHole(_, _)
SiftUpHole(h, i) ==
    IF 2 * i <= Len(h)
    THEN LET c == IF 2 * i + 1 <= Len(h) /\ ~EntryLess(h[2 * i], h[2 * i + 1])
                  THEN 2 * i + 1 ELSE 2 * i
         IN SiftUpHole([h EXCEPT ![i] = h[c]], c)
    ELSE [heap |-> h, pos |-> i]

\* heapq._siftup(heap, pos)
SiftUp(h, i) ==
    LET r == SiftUpHole(h, i)
    IN SiftDown(r.heap, i, r.pos, h[i])

\* heapq.heappop: the item returned and the heap left
HeapPop(h) ==
    LET lastelt == h[Len(h)]
        rest == SubSeq(h, 1, Len(h) - 1)
    IN IF rest = <<>> THEN [item |-> lastelt, heap |-> <<>>]
       ELSE [item |-> rest[1], heap |-> SiftUp([rest EXCEPT ![1] = lastelt], 1)]

RECURSIVE HeapPushAll(_, _)
HeapPushAll(h, entries) ==
    IF entries = <<>> THEN h ELSE HeapPushAll(HeapPush(h, Head(entries)), Tail(entries))

\* the executor and the manager play no part in the memory actions
MemoryFrame ==
    /\ UNCHANGED <<wf, workflows, tasks, task_state, new_tasks_event, ready, runner, dicts, excepted>>
    /\ UNCHANGED graphVars
    /\ UNCHANGED mgrVars
    /\ UNCHANGED <<stage, request>>

\* datetime.now() moves on
Tick ==
    /\ clock < MaxClock
    /\ clock' = clock + 1
    /\ UNCHANGED <<conclusion, action_map, memory_store, refresh, memory_class, stores>>
    /\ MemoryFrame

\* MemoryItemFactory.create_memory_item(action, observation, description,
\* question, node_id), then store_data on the item
StoreItem(action, observation, description, question, node_id) ==
    /\ stores < MaxStored
    /\ stores' = stores + 1
    /\ LET item == MemoryItem(action, observation, description, question, node_id, clock)
       IN /\ action_map' = StoreData(action_map, item)
          /\ memory_store' = HeapPush(memory_store, Entry(item.timestamp, item.action))
    /\ refresh' = IF refresh.pc = "popping" THEN [refresh EXCEPT !.quiet = FALSE] ELSE refresh
    /\ UNCHANGED <<conclusion, clock, memory_class>>
    /\ MemoryFrame

Store(action, observation, question, node_id) ==
    StoreItem(action, observation, "d", question, node_id)

\* refresh_loop wakes up and calls refresh_all_items: temp_store = []
RefreshBegin ==
    /\ refresh.pc = "idle"
    /\ refresh' = [pc |-> "popping", temp_store |-> <<>>, log |-> <<>>,
                   began |-> [a \in DOMAIN action_map |-> action_map[a].timestamp],
                   queued |-> {memory_store[k].action : k \in 1..Len(memory_store)}
                                \cap DOMAIN action_map,
                   quiet |-> TRUE]
    /\ UNCHANGED <<conclusion, action_map, memory_store, clock, memory_class, stores>>
    /\ MemoryFrame

\* the methods of the object run_action_and_update receives as the graph:
\* BaseMemory passes its extraction Stage, baseMemory the graph
GraphArgMethods(class) ==
    IF class = "BaseMemory"
    THEN {"step", "select_final_output", "process_sct"}
    ELSE {"get_node", "get_graph_obj", "get_conclusion_by_id"}

\* MemoryItem.handle_no_llm_func(question)
NoLlmConclusion(q) == IF q = "q1" THEN "LLM:q1" ELSE "LLM:q2"

\* the conclusions written to the nodes of the record's questions, in the
\* order of question_node_map
RECURSIVE SetConclusions(_, _)
SetConclusions(concl, qs) ==
    IF qs = <<>> THEN concl
    ELSE SetConclusions([i \in DOMAIN concl |->
                           IF i \in Head(qs).node_ids THEN NoLlmConclusion(Head(qs).question)
                           ELSE concl[i]],
                        Tail(qs))

\* one turn of the loop of refresh_all_items: pop the queue, look the action
\* up and run run_action_and_update on its record; res is what execute_action
\* yields.  An exception is caught in BaseMemory and ends the refresh thread
\* in baseMemory.
RefreshPop(res) ==
    /\ refresh.pc = "popping"
    /\ memory_store # <<>>
    /\ LET popped == HeapPop(memory_store)
           action == popped.item.action
       IN /\ memory_store' = popped.heap
          /\ IF action \notin DOMAIN action_map
             THEN /\ refresh' = refresh
                  /\ UNCHANGED <<action_map, conclusion>>
             ELSE IF res = ExecuteFails
             THEN /\ refresh' = [refresh EXCEPT !.log = Append(@, action),
                                               !.pc = IF memory_class = "BaseMemory"
                                                      THEN "popping" ELSE "dead"]
                  /\ UNCHANGED <<action_map, conclusion>>
             ELSE IF action_map[action].questions # <<>>
                     /\ "get_node" \notin GraphArgMethods(memory_class)
             THEN \* AttributeError after the observation was assigned
                  /\ action_map' = [action_map EXCEPT ![action].observation = res]
                  /\ refresh' = [refresh EXCEPT !.log = Append(@, action)]
                  /\ UNCHANGED conclusion
             ELSE /\ action_map' = [action_map EXCEPT ![action].observation = res,
                                                     ![action].timestamp = clock]
                  /\ conclusion' = SetConclusions(conclusion, action_map[action].questions)
                  /\ refresh' = [refresh EXCEPT !.log = Append(@, action),
                                               !.temp_store = Append(@, Entry(clock, action))]
    /\ UNCHANGED <<clock, memory_class, stores>>
    /\ MemoryFrame

\* the queue is empty: the entries of temp_store are pushed back
RefreshEnd ==
    /\ refresh.pc = "popping"
    /\ memory_store = <<>>
    /\ memory_store' = HeapPushAll(memory_store, refresh.temp_store)
    /\ refresh' = [refresh EXCEPT !.pc = "idle", !.temp_store = <<>>]
    /\ UNCHANGED <<conclusion, action_map, clock, memory_class, stores>>
    /\ MemoryFrame

InitMemory ==
    /\ nodes = Build([i \in NodeIds |-> Node("default", "")], <<>>)
    /\ edges = <<>>
    /\ current_node_id = StartNodeId
    /\ last = NoCall
    /\ advances = 0
    /\ conclusion = [i \in NodeIds |-> ""]
    /\ wf = <<>>
    /\ workflows = {}
    /\ tasks = {}
    /\ task_state = <<>>
    /\ new_tasks_event = FALSE
    /\ ready = <<>>
    /\ runner = NoRunner
    /\ action_map = <<>>
    /\ dicts = <<>>
    /\ excepted = {}
    /\ removed = NoRemove
    /\ memory_store = <<>>
    /\ clock = 1
    /\ refresh = NoRefresh
    /\ memory_class \in MemoryClasses
    /\ stores = 0
    /\ stage = NoStage
    /\ request = NoRequest

NextMemory ==
    \/ Tick
    \/ \E a \in MemActions, o \in Observations, p \in QuestionPairs :
         Store(a, o, p[1], p[2])
    \/ RefreshBegin
    \/ \E res \in ExecuteResults : RefreshPop(res)
    \/ RefreshEnd

SpecMemory == InitMemory /\ [][NextMemory]_vars

\* store_data alone, with no refresh thread running
NextStore ==
    \/ Tick
    \/ \E a \in MemActions, o \in Observations, p \in QuestionPairs :
         Store(a, o, p[1], p[2])

SpecStore == InitMemory /\ [][NextStore]_vars

\* Python None, as returned by dict.get for a missing key
NoItem == [action |-> PyNone]

\* baseMemory.get_memory_item_by_action
GetMemoryItemByAction(am, action) ==
    IF action \in DOMAIN am THEN am[action] ELSE NoItem

\* the list comprehension of remove_memory_item_by_action
RECURSIVE RemoveEntries(_, _)
RemoveEntries(h, action) ==
    IF h = <<>> THEN <<>>
    ELSE IF Head(h).action # action
         THEN <<Head(h)>> \o RemoveEntries(Tail(h), action)
         ELSE RemoveEntries(Tail(h), action)

\* del self.action_map[action], when the action is a key
DelActionNever(am, action) == am
DelAction(am, action) == [a \in DOMAIN am \ {action} |-> am[a]]

\* baseMemory.remove_memory_item_by_action
RemoveMemoryItemByAction(action) ==
    /\ memory_class = "baseMemory"
    /\ memory_store' = RemoveEntries(memory_store, action)
    /\ action_map' = DelAction(action_map, action)
    /\ refresh' = IF refresh.pc = "popping" THEN [refresh EXCEPT !.quiet = FALSE] ELSE refresh
    /\ UNCHANGED <<conclusion, clock, memory_class, stores>>
    /\ MemoryFrame

\* the descriptions items are created with
Descriptions == {"d", "e"}

\* baseMemory with its callers storing and removing records while the
\* refresh thread runs
InitLifecycle == InitMemory /\ memory_class = "baseMemory"

NextLifecycle ==
    \/ Tick
    \/ \E a \in MemActions, o \in Observations, d \in Descriptions :
         stores < MaxLifecycle /\ StoreItem(a, o, d, "q1", "1")
    \/ \E a \in MemActions : RemoveMemoryItemByAction(a)
    \/ RefreshBegin
    \/ \E res \in ExecuteResults : RefreshPop(res)
    \/ RefreshEnd

SpecLifecycle == InitLifecycle /\ [][NextLifecycle]_vars

\* the same with three records stored, for the shape of the queue that
\* remove_memory_item_by_action leaves
NextRemoval ==
    \/ Tick
    \/ \E a \in MemActions, o \in Observations : StoreItem(a, o, "d", "q1", "1")
    \/ \E a \in MemActions : RemoveMemoryItemByAction(a)
    \/ RefreshBegin
    \/ \E res \in ExecuteResults : RefreshPop(res)
    \/ RefreshEnd

SpecRemoval == InitLifecycle /\ [][NextRemoval]_vars

(***************************************************************************)
(* Stage voting: ActionStage.select_final_output with                      *)
(* utils.tools.extract_tool_signature and the parser                       *)
(* StructuredChatOutputParser, and BaseStage.select_final_output.  An      *)
(* output is the text returned by the oracle: a JSON object with a tool    *)
(* name and its input followed by `pad` blanks, or a text that is not such *)
(* an object.  Names and values of the model are one character long.       *)
(***************************************************************************)
FinalAction == "Final Answer"
PyList == "<list>"

\* the state of every variable but `stage` when only a Stage is at work
OtherIdle ==
    /\ nodes = Build([i \in NodeIds |-> Node("default", "")], <<>>)
    /\ edges = <<>>
    /\ current_node_id = StartNodeId
    /\ last = NoCall
    /\ advances = 0
    /\ conclusion = [i \in NodeIds |-> ""]
    /\ wf = <<>>
    /\ workflows = {}
    /\ tasks = {}
    /\ task_state = <<>>
    /\ new_tasks_event = FALSE
    /\ ready = <<>>
    /\ runner = NoRunner
    /\ action_map = <<>>
    /\ dicts = <<>>
    /\ excepted = {}
    /\ removed = NoRemove
    /\ memory_store = <<>>
    /\ clock = 1
    /\ refresh = NoRefresh
    /\ memory_class = "BaseMemory"
    /\ stores = 0
    /\ request = NoRequest

StageFrame ==
    /\ UNCHANGED graphVars
    /\ UNCHANGED execVars
    /\ UNCHANGED <<removed, memory_store, clock, refresh, memory_class, stores, request>>

\* str.lower() on the strings of the model
Lower(s) == IF s = "K" THEN "k" ELSE IF s = "X" THEN "x" ELSE s

\* the value of "action_input": a str, or a dict given by its items in the
\* order of the text
StrInput(v) == [type |-> "str", value |-> v, items |-> <<>>]
DictInput(items) == [type |-> "dict", value |-> "", items |-> items]

Json(tool, tool_input, pad) == [kind |-> "json", tool |-> tool, tool_input |-> tool_input, pad |-> pad]
NotJson == [kind |-> "not_json", tool |-> "", tool_input |-> StrInput(""), pad |-> 0]

\* the outputs of the model, in the order of their rank
OutputTexts ==
    << Json("k", DictInput(<< <<"a", "x">>, <<"b", "y">> >>), 0),
       Json("k", DictInput(<< <<"b", "y">>, <<"a", "X">> >>), 0),
       Json("k", DictInput(<< <<"a", "x">>, <<"b", "y">> >>), 1),
       Json("K", DictInput(<< <<"a", "x">>, <<"b", "y">> >>), 0),
       Json("j", StrInput("X"), 0),
       Json("j", StrInput("x"), 2),
       Json(FinalAction, StrInput("x"), 0),
       NotJson,
       Json("k", DictInput(<< <<"a", PyList>> >>), 0) >>

OutputPool == {OutputTexts[i] : i \in 1..Len(OutputTexts)}
OutputLists == SeqsUpTo(OutputPool, MaxOutputs)

\* len(output)
TextLen(o) ==
    IF o.kind = "not_json" THEN 8
    ELSE 30 + (IF o.tool = FinalAction THEN 11 ELSE 0)
            + (IF o.tool_input.type = "str" THEN 1 ELSE 10 * Len(o.tool_input.items))
            + o.pad

\* StructuredChatOutputParser.parse
ParseRaises(x) == [raised |-> x, type |-> "", tool |-> "", tool_input |-> StrInput("")]
Parse(o) ==
    IF o.kind = "not_json" THEN ParseRaises("OutputParserException")
    ELSE IF o.tool = FinalAction
    THEN [raised |-> "", type |-> "AgentFinish", tool |-> "", tool_input |-> StrInput("")]
    ELSE [raised |-> "", type |-> "AgentAction", tool |-> o.tool, tool_input |-> o.tool_input]

\* {k.lower(): v.lower() if isinstance(v, str) else v for k, v in
\* tool_input.items()}, as the set of its items: a later item replaces an
\* earlier one with the same lowered key
LowercaseToolInput(items) ==
    { <<Lower(items[i][1]), Lower(items[i][2])>> :
        i \in {j \in 1..Len(items) :
                 \A m \in (j + 1)..Len(items) : Lower(items[m][1]) # Lower(items[j][1])} }

\* the attributes of the objects a parser returns
AgentAttrs(type) ==
    IF type = "AgentAction" THEN {"tool", "tool_input", "log"} ELSE {"return_values", "log"}

SignatureRaises(x) == [raised |-> x, tool |-> "", type |-> "", value |-> "", items |-> {}]

\* utils.tools.extract_tool_signature
ExtractToolSignature(o) ==
    LET parsed == Parse(o)
    IN IF parsed.raised # "" THEN SignatureRaises(parsed.raised)
       ELSE IF "tool_input" \notin AgentAttrs(parsed.type) THEN SignatureRaises("AttributeError")
       ELSE IF parsed.tool_input.type = "str"
       THEN [raised |-> "", tool |-> parsed.tool, type |-> "str",
             value |-> Lower(parsed.tool_input.value), items |-> {}]
       ELSE LET lowered == LowercaseToolInput(parsed.tool_input.items)
            IN IF \E it \in lowered : it[2] = PyList THEN SignatureRaises("TypeError")
               ELSE [raised |-> "", tool |-> parsed.tool, type |-> "frozenset",
                     value |-> "", items |-> lowered]

\* what select_final_output yields: the output returned, or the exception
Selected(o) == [raised |-> "", ret |-> o]
SelectRaises(x) == [raised |-> x, ret |-> NotJson]

\* the positions of the outputs kept in valid_outputs
ValidKeepsAll(outputs) == {i \in 1..Len(outputs) : TRUE}
Valid(outputs) == {i \in 1..Len(outputs) : ExtractToolSignature(outputs[i]).raised = ""}

\* Counter(valid_signatures).most_common(1)[0][0]: the keys of a Counter are
\* in the order of first occurrence, and the first key with the highest
\* count is taken; the value is the position of its first occurrence
MostCommon(outputs, valid) ==
    LET Count(i) == Cardinality({j \in valid :
                      ExtractToolSignature(outputs[j]) = ExtractToolSignature(outputs[i])})
    IN CHOOSE i \in valid :
         /\ \A j \in valid : Count(j) <= Count(i)
         /\ \A j \in valid : j < i => Count(j) < Count(i)

\* matched_outputs: the valid outputs with the winning signature, in order
RECURSIVE Matched(_, _, _, _)
Matched(outputs, valid, win, i) ==
    IF i > Len(outputs) THEN <<>>
    ELSE IF i \in valid /\ ExtractToolSignature(outputs[i]) = ExtractToolSignature(outputs[win])
         THEN <<outputs[i]>> \o Matched(outputs, valid, win, i + 1)
         ELSE Matched(outputs, valid, win, i + 1)

\* list.sort(key=len): a stable sort, here by insertion after the last
\* element that is not longer
RECURSIVE InsertByLen(_, _)
InsertByLen(sorted, x) ==
    IF sorted = <<>> THEN <<x>>
    ELSE IF TextLen(sorted[Len(sorted)]) <= TextLen(x) THEN Append(sorted, x)
         ELSE Append(InsertByLen(SubSeq(sorted, 1, Len(sorted) - 1), x), sorted[Len(sorted)])

RECURSIVE SortByLen(_)
SortByLen(list) ==
    IF list = <<>> THEN <<>>
    ELSE InsertByLen(SortByLen(SubSeq(list, 1, Len(list) - 1)), list[Len(list)])

\* middle_index = len(matched_outputs) // 2, as a position counted from 1
MiddleIndexLow(n) == ((n - 1) \div 2) + 1
MiddleIndex(n) == (n \div 2) + 1

\* ActionStage.select_final_output
SelectFinalOutput(outputs) ==
    IF outputs = <<>> THEN SelectRaises("ValueError")
    ELSE LET valid == Valid(outputs)
         IN IF valid = {} THEN SelectRaises("RuntimeError")
            ELSE LET matched == SortByLen(Matched(outputs, valid, MostCommon(outputs, valid), 1))
                 IN Selected(matched[MiddleIndex(Len(matched))])

\* the seeds of str hashing (PYTHONHASHSEED) of the model: the order in which
\* a set of str is iterated depends on the hashes of its members, which
\* change from one interpreter process to the next
HashSeeds == {1, 2, 3}
Rank(o) == CHOOSE i \in 1..Len(OutputTexts) : OutputTexts[i] = o
HashKey(seed, o) ==
    IF seed = 1 THEN Rank(o)
    ELSE IF seed = 2 THEN 0 - Rank(o)
    ELSE (Rank(o) + 4) % Len(OutputTexts)

\* iter(set(outputs)) in a process with the given seed
RECURSIVE SetOrder(_, _)
SetOrder(seed, S) ==
    IF S = {} THEN <<>>
    ELSE LET m == CHOOSE x \in S : \A y \in S : HashKey(seed, x) <= HashKey(seed, y)
         IN <<m>> \o SetOrder(seed, S \ {m})

\* outputs.count(x)
CountOf(outputs, x) == Cardinality({i \in 1..Len(outputs) : outputs[i] = x})

\* max(iterable, key): the first item with the largest key
MaxTakesFirst(order, outputs) == order[1]
MaxByCount(order, outputs) ==
    order[CHOOSE i \in 1..Len(order) :
            /\ \A j \in 1..Len(order) : CountOf(outputs, order[j]) <= CountOf(outputs, order[i])
            /\ \A j \in 1..(i - 1) : CountOf(outputs, order[j]) < CountOf(outputs, order[i])]

\* BaseStage.select_final_output
BaseSelectFinalOutput(outputs, seed) ==
    IF outputs = <<>> THEN SelectRaises("ValueError")
    ELSE Selected(MaxByCount(SetOrder(seed, {outputs[i] : i \in 1..Len(outputs)}), outputs))

\* a Stage holds the outputs of its samples; select_final_output is invoked
\* on them, by an ActionStage or by a BaseStage, in a process with some seed
InitVote ==
    /\ OtherIdle
    /\ \E os \in OutputLists : stage = [pc |-> "vote", outputs |-> os, calls |-> <<>>]

ActionStageSelect(seed) ==
    /\ stage.pc = "vote"
    /\ Len(stage.calls) < MaxCalls
    /\ stage' = [stage EXCEPT !.calls = Append(@, [class |-> "ActionStage", seed |-> seed,
                                                   out |-> SelectFinalOutput(stage.outputs)])]
    /\ StageFrame

BaseStageSelect(seed) ==
    /\ stage.pc = "vote"
    /\ Len(stage.calls) < MaxCalls
    /\ stage' = [stage EXCEPT !.calls = Append(@, [class |-> "BaseStage", seed |-> seed,
                                                   out |-> BaseSelectFinalOutput(stage.outputs, seed)])]
    /\ StageFrame

NextVote ==
    \/ \E seed \in HashSeeds : ActionStageSelect(seed)
    \/ \E seed \in HashSeeds : BaseStageSelect(seed)

SpecVote == InitVote /\ [][NextVote]_vars

(***************************************************************************)
(* ActionStage.process_sct: the repair of the outputs of a Stage.  `stage` *)
(* holds the arguments of the call, the nonlocal counters remaining_fixes  *)
(* and total_attempt, and for each output its try_fix_output: its position *)
(* (not started, suspended in the call of the fixing model, returned, or   *)
(* ended by an exception), its attempt counter and its current output.     *)
(* bean/stage/base/ActionStage.py runs the try_fix_output coroutines under *)
(* asyncio.gather, bean/stage/ActionStage.py calls them one after another. *)
(***************************************************************************)
StageClasses == {"base", "stage"}
FixingNums == 0..MaxFixing

\* the tool of the Stage and the names of its arguments
ToolName == "k"
ToolArgs == {"a", "b"}

\* the outputs to repair and the replies of the fixing model
RepairTexts == {OutputTexts[1], OutputTexts[4], NotJson}
RepairLists == SeqsUpTo(RepairTexts, MaxRepaired)

\* utils.tools.validate_tool_input raises
ValidateRaises(parsed) ==
    \/ "tool" \notin AgentAttrs(parsed.type)
    \/ parsed.tool # ToolName
    \/ parsed.tool_input.type # "dict"
    \/ {parsed.tool_input.items[i][1] : i \in 1..Len(parsed.tool_input.items)} # ToolArgs

\* utils.tools.execute_action raises: no tool has the name, or the run of
\* the tool raised (ran is what the tool did)
ExecuteRaises(parsed, ran) ==
    \/ "tool" \notin AgentAttrs(parsed.type)
    \/ parsed.tool # ToolName
    \/ ~ran

\* the body of the try statement of try_fix_output raises
TryRaises(class, output, ran) ==
    \/ Parse(output).raised # ""
    \/ IF class = "base" THEN ValidateRaises(Parse(output))
                          ELSE ExecuteRaises(Parse(output), ran)

\* the condition of the while loop of try_fix_output
MayRetryNoBudget(attempt, fixing_num, remaining_fixes) == attempt < fixing_num
MayRetryNoLimit(attempt, fixing_num, remaining_fixes) == remaining_fixes > 0
MayRetry(attempt, fixing_num, remaining_fixes) ==
    attempt < fixing_num /\ remaining_fixes > 0

\* try_fix_output i runs from the head of its loop, holding output, up to
\* its next call of the fixing model or to its return
TryFixOutput(s, i, output, ran) ==
    IF /\ MayRetry(s.attempt[i], s.fixing_num, s.remaining_fixes)
       /\ TryRaises(s.class, output, ran)
    THEN [s EXCEPT !.outputs[i] = output,
                   !.attempt[i] = @ + 1,
                   !.total_attempt = @ + 1,
                   !.remaining_fixes = @ - 1,
                   !.calls = @ + 1,
                   !.fixes[i] = @ + 1,
                   !.co[i] = "await"]
    ELSE [s EXCEPT !.outputs[i] = output, !.co[i] = "done"]

InitRepair ==
    /\ OtherIdle
    /\ \E class \in StageClasses, enable_fixing \in BOOLEAN, fixing_num \in FixingNums,
          dynamic_fixing \in BOOLEAN, os \in RepairLists :
         stage = [pc |-> "called", class |-> class, enable_fixing |-> enable_fixing,
                  fixing_num |-> fixing_num, dynamic_fixing |-> dynamic_fixing,
                  outputs |-> os, n |-> Len(os), pass |-> 0,
                  co |-> [i \in 1..Len(os) |-> "start"],
                  attempt |-> [i \in 1..Len(os) |-> 0],
                  remaining_fixes |-> 0, total_attempt |-> 0, calls |-> 0,
                  inputs |-> os, fixes |-> [i \in 1..Len(os) |-> 0], first_pass |-> 0]

\* process_sct up to the first pass
ProcessSct ==
    /\ stage.pc = "called"
    /\ stage' = IF ~stage.enable_fixing
                THEN [stage EXCEPT !.pc = "returned"]
                ELSE [stage EXCEPT !.pc = "repair", !.pass = 1,
                                   !.remaining_fixes = stage.fixing_num * stage.n]
    /\ StageFrame

\* try_fix_output i may run: the tasks of gather start in the order of the
\* list, and bean/stage/ActionStage.py ends one call before the next
MayRun(i) ==
    /\ stage.pc = "repair"
    /\ i \in 1..stage.n
    /\ stage.co[i] = "start" => \A j \in 1..(i - 1) : stage.co[j] # "start"
    /\ stage.class = "stage" => \A j \in 1..stage.n : /\ stage.co[j] # "raised"
                                                       /\ j < i => stage.co[j] = "done"

StartTask(i, ran) ==
    /\ MayRun(i)
    /\ stage.co[i] = "start"
    /\ stage' = TryFixOutput(stage, i, stage.outputs[i], ran)
    /\ StageFrame

\* the fixing model replies and try_fix_output i goes on
ResumeTask(i, reply, ran) ==
    /\ MayRun(i)
    /\ stage.co[i] = "await"
    /\ stage' = TryFixOutput(stage, i, reply, ran)
    /\ StageFrame

\* the call of the fixing model raises, or what it returned cannot be awaited
ResumeRaises(i) ==
    /\ MayRun(i)
    /\ stage.co[i] = "await"
    /\ stage' = [stage EXCEPT !.co[i] = "raised"]
    /\ StageFrame

AllDone == \A i \in 1..stage.n : stage.co[i] = "done"

\* the second pass: a new try_fix_output for every repaired output
SecondPass ==
    /\ stage.pc = "repair"
    /\ stage.pass = 1
    /\ AllDone
    /\ stage.dynamic_fixing /\ stage.remaining_fixes > 0
    /\ stage' = [stage EXCEPT !.pass = 2,
                              !.first_pass = stage.calls,
                              !.co = [i \in 1..stage.n |-> "start"],
                              !.attempt = [i \in 1..stage.n |-> 0]]
    /\ StageFrame

ReturnRepaired ==
    /\ stage.pc = "repair"
    /\ AllDone
    /\ stage.pass = 2 \/ ~(stage.dynamic_fixing /\ stage.remaining_fixes > 0)
    /\ stage' = [stage EXCEPT !.pc = "returned"]
    /\ StageFrame

NextRepair ==
    \/ ProcessSct
    \/ \E i \in 1..MaxRepaired, ran \in BOOLEAN : StartTask(i, ran)
    \/ \E i \in 1..MaxRepaired, reply \in RepairTexts, ran \in BOOLEAN : ResumeTask(i, reply, ran)
    \/ \E i \in 1..MaxRepaired : ResumeRaises(i)
    \/ SecondPass
    \/ ReturnRepaired

SpecRepair == InitRepair /\ [][NextRepair]_vars

(***************************************************************************)
(* StructuredConclusionOutputParser.parse.  A text and a label are         *)
(* sequences of letters; `stage` holds the text, the list pattern_func     *)
(* returns, and the outcome of the call.                                   *)
(***************************************************************************)
Letters == {"k", "K", "x", "X"}
Texts == SeqsUpTo(Letters, MaxText)
PermittedLabels == {<<"k">>, <<"x">>, <<"K", "x">>, <<"x", "k">>}
PatternLists == SeqsUpTo(PermittedLabels, MaxPatterns)

\* re.search(re.escape(pattern), text, re.IGNORECASE) finds a match
ReSearchExact(pattern, text) ==
    \E at \in 0..(Len(text) - Len(pattern)) :
      \A j \in 1..Len(pattern) : text[at + j] = pattern[j]
ReSearch(pattern, text) ==
    \E at \in 0..(Len(text) - Len(pattern)) :
      \A j \in 1..Len(pattern) : Lower(text[at + j]) = Lower(pattern[j])

\* matches: the patterns found in the text, in the order of the list
RECURSIVE Matches(_, _)
Matches(patterns, text) ==
    IF patterns = <<>> THEN <<>>
    ELSE (IF ReSearch(Head(patterns), text) THEN <<Head(patterns)>> ELSE <<>>)
         \o Matches(Tail(patterns), text)

NotParsed == [raised |-> "", tool |-> <<>>, tool_input |-> <<>>, candidates |-> <<>>]

\* the outcome of parse: the AgentAction returned, or the exception with
\* the patterns its message lists
ConclusionParse(patterns, text) ==
    LET matches == Matches(patterns, text)
    IN IF Len(matches) = 0 \/ Len(matches) > 1
       THEN [raised |-> "OutputParserException", tool |-> <<>>, tool_input |-> <<>>,
             candidates |-> patterns]
       ELSE [raised |-> "", tool |-> matches[1], tool_input |-> matches[1],
             candidates |-> <<>>]

InitConclusion ==
    /\ OtherIdle
    /\ \E text \in Texts, patterns \in PatternLists :
         stage = [pc |-> "parse", text |-> text, patterns |-> patterns, out |-> NotParsed]

ParseConclusion ==
    /\ stage.pc = "parse"
    /\ stage' = [stage EXCEPT !.pc = "parsed",
                              !.out = ConclusionParse(stage.patterns, stage.text)]
    /\ StageFrame

NextConclusion == ParseConclusion

SpecConclusion == InitConclusion /\ [][NextConclusion]_vars

(***************************************************************************)
(* utils/StageUtils.py: run_action_and_set_conclusion, the call a step of  *)
(* a workflow makes on a Decision node.                                    *)
(***************************************************************************)
\* pair.question_node_map: the questions in insertion order, each with the
\* nodes that ask it
PairMaps ==
    LET one == {[question |-> q, node_ids |-> ns] :
                  q \in {"q1", "q2"}, ns \in (SUBSET NodeIds) \ {{}}}
    IN {<<x>> : x \in one}
         \cup {<<x, y>> : x \in {o \in one : o.question = "q1"},
                          y \in {o \in one : o.question = "q2"}}

\* str_utils.process_regex: the match, or a message saying there was none
ProcessRegex(a) == IF a = StageFails THEN "regex failed" ELSE a

ExtractFrame ==
    /\ UNCHANGED graphVars
    /\ UNCHANGED <<wf, workflows, tasks, task_state, new_tasks_event, ready, runner, action_map,
                   dicts, excepted>>
    /\ UNCHANGED <<removed, memory_store, clock, refresh, memory_class, stores, request>>

InitExtract ==
    /\ OtherIdle
    /\ stage = [pc |-> "returned", pair |-> <<>>, k |-> 1, failed |-> {}, written |-> {},
                raised |-> FALSE, calls |-> 0]

\* run_action_and_set_conclusion up to asyncio.gather: execute_action runs
\* outside the try block; res is what it yields
RunActionAndSetConclusion(qs, res) ==
    /\ stage.pc = "returned"
    /\ stage.calls < MaxCalls
    /\ stage' = [pc |-> IF res = ExecuteFails THEN "returned" ELSE "gather",
                 pair |-> qs, k |-> 1, failed |-> {}, written |-> {},
                 raised |-> (res = ExecuteFails), calls |-> stage.calls + 1]
    /\ UNCHANGED conclusion
    /\ ExtractFrame

\* _process_question_nodes of the next question of the pair: regex tells
\* whether the first node has a regex, a is what the regex or the Stage gives
ProcessQuestionNodes(regex, a) ==
    /\ stage.pc = "gather"
    /\ stage.k <= Len(stage.pair)
    /\ LET q == stage.pair[stage.k]
           out == IF regex THEN ProcessRegex(a) ELSE a
       IN IF out = StageFails
          THEN \* except Exception: logging.error
               /\ stage' = [stage EXCEPT !.k = @ + 1, !.failed = @ \cup {q.question}]
               /\ UNCHANGED conclusion
          ELSE /\ stage' = [stage EXCEPT !.k = @ + 1, !.written = @ \cup q.node_ids]
               /\ conclusion' = [i \in NodeIds |-> IF i \in q.node_ids THEN out ELSE conclusion[i]]
    /\ ExtractFrame

\* every task of the gather is done: the call returns None
GatherReturns ==
    /\ stage.pc = "gather"
    /\ stage.k > Len(stage.pair)
    /\ stage' = [stage EXCEPT !.pc = "returned"]
    /\ UNCHANGED conclusion
    /\ ExtractFrame

NextExtract ==
    \/ \E qs \in PairMaps, res \in ExecuteResults : RunActionAndSetConclusion(qs, res)
    \/ \E regex \in BOOLEAN, a \in StageAnswers : ProcessQuestionNodes(regex, a)
    \/ GatherReturns

SpecExtract == InitExtract /\ [][NextExtract]_vars

(***************************************************************************)
(* Properties of the traversal step.  `last` holds the node the last call  *)
(* started from, its condition value and its outcome; the graph is not     *)
(* changed by a call, so nodes[last.from] is the node the call read.       *)
(***************************************************************************)
Called == last.caller # 0
FromNode == nodes[last.from]
FromIs(types) == Called /\ HasNode(nodes, last.from) /\ FromNode.node_type \in types
Returned == last.raised = ""
\* no outgoing edge of the start node carries a label equal to the condition value
NoLabelEquals == \A k \in 1..Len(FromNode.edges) : FromNode.edges[k].condition_value # last.cond
SomeLabelEquals == \E k \in 1..Len(FromNode.edges) : FromNode.edges[k].condition_value = last.cond

\* C1: parent-climb fallback. After an advance from a Decision or Terminal node
\* that has a non-empty parent_group, made with no condition value or with one
\* equal to none of the node's edge labels, the call has returned True and the
\* cursor is on the parent group.
ParentClimb ==
    ( /\ FromIs({"default", "output"})
      /\ Truthy(FromNode.parent_node)
      /\ (last.cond = PyNone \/ NoLabelEquals) )
    => ( /\ Returned
         /\ last.ret = "True"
         /\ current_node_id = FromNode.parent_node )

\* a Decision node with an edge labelled "yes" and parent "3" was advanced with
\* "no" and the cursor climbed to "3"
ParentClimbWitness ==
    /\ FromIs({"default"})
    /\ FromNode.parent_node = "3"
    /\ Len(FromNode.edges) > 0
    /\ FromNode.edges[1].condition_value = "yes"
    /\ FromNode.edges[1].target_node = "2"
    /\ last.cond = "no"
    /\ last.ret = "True"
    /\ current_node_id = "3"

\* C2: group sink. After an advance from a Group node none of whose edges is
\* labelled with the condition value (a Group without edges included), the call
\* has returned False without raising and the cursor is still on the Group.
GroupSink ==
    (FromIs({"group"}) /\ NoLabelEquals)
    => ( /\ Returned
         /\ last.ret = "False"
         /\ current_node_id = last.from )

\* a Group with an edge labelled "yes" was advanced with "Yes" and reported the end
GroupSinkWitness ==
    /\ FromIs({"group"})
    /\ Len(FromNode.edges) > 0
    /\ FromNode.edges[1].condition_value = "yes"
    /\ last.cond = "Yes"
    /\ last.ret = "False"
    /\ current_node_id = last.from

\* C3: decision match. After an advance from a Decision or Terminal node with a
\* non-empty condition value c, if some edge is labelled exactly c the cursor is
\* on the target of the first such edge in adjacency order (parent_group or not);
\* if no edge is labelled exactly c, one labelled c in another letter case is not
\* followed: the cursor is on the parent group or the call raised.
DecisionMatch ==
    (FromIs({"default", "output"}) /\ Truthy(last.cond))
    => /\ \A k \in 1..Len(FromNode.edges) :
            ( /\ FromNode.edges[k].condition_value = last.cond
              /\ \A j \in 1..(k - 1) : FromNode.edges[j].condition_value # last.cond )
            => ( /\ Returned
                 /\ last.ret = "True"
                 /\ current_node_id = FromNode.edges[k].target_node )
       /\ NoLabelEquals
            => \/ ~Returned /\ current_node_id = last.from
               \/ Returned /\ current_node_id = FromNode.parent_node

\* a Decision node with parent "3" and two edges labelled "yes", to "2" and then
\* to "1", was advanced with "yes" and the cursor is on "2"
DecisionMatchWitness ==
    /\ FromIs({"default"})
    /\ FromNode.parent_node = "3"
    /\ Len(FromNode.edges) = 2
    /\ FromNode.edges[1] = Edge("1", "2", "yes")
    /\ FromNode.edges[2] = Edge("1", "1", "yes")
    /\ last.cond = "yes"
    /\ current_node_id = "2"

\* C4: dead end. After an advance from a Decision or Terminal node with an empty
\* parent_group, made with no condition value or with one equal to none of the
\* node's edge labels, the call has raised and the cursor has not moved.
DeadEnd ==
    ( /\ FromIs({"default", "output"})
      /\ ~Truthy(FromNode.parent_node)
      /\ (last.cond = PyNone \/ NoLabelEquals) )
    => ( /\ ~Returned
         /\ current_node_id = last.from )

\* a Terminal node without parent and with an edge labelled "yes" was advanced
\* with "no": the call raised
DeadEndWitness ==
    /\ FromIs({"output"})
    /\ FromNode.parent_node = ""
    /\ Len(FromNode.edges) > 0
    /\ FromNode.edges[1].condition_value = "yes"
    /\ last.cond = "no"
    /\ last.raised = "Exception"
    /\ current_node_id = last.from

\* the Entry children of group g
EntryChildren(ns, g) ==
    {i \in DOMAIN ns : ns[i].parent_node = g /\ ns[i].node_type = "input"}

IsGroup(ns, i) == HasNode(ns, i) /\ ns[i].node_type = "group"

\* C5: Entry transition. After an advance from an Entry node: with exactly one
\* outgoing edge the call has reported a next node and the cursor is on the
\* edge's target (a target that is a Group is entered, see C6); with zero or
\* several outgoing edges the call has raised and the cursor has not moved.
EntryTransition ==
    FromIs({"input"})
    => IF Len(FromNode.edges) = 1
       THEN ~IsGroup(nodes, FromNode.edges[1].target_node)
              => ( /\ Returned
                   /\ last.ret = "True"
                   /\ current_node_id = FromNode.edges[1].target_node )
       ELSE ~Returned /\ current_node_id = last.from

\* C6: enter group. After an advance from an Entry node whose edge leads to a
\* Group g, the cursor is on the Entry child of g when g has exactly one, and the
\* call has raised when g has none or several.
EnterGroup ==
    ( /\ FromIs({"input"})
      /\ Len(FromNode.edges) = 1
      /\ IsGroup(nodes, FromNode.edges[1].target_node) )
    => LET kids == EntryChildren(nodes, FromNode.edges[1].target_node)
       IN IF Cardinality(kids) = 1
          THEN Returned /\ current_node_id \in kids
          ELSE ~Returned

\* C7: group-to-group transition. After an advance from a Group node whose first
\* edge labelled with the condition value leads to a Group t that has exactly one
\* Entry child, the cursor is on that Entry child of t.
GroupToGroup ==
    FromIs({"group"})
    => \A k \in 1..Len(FromNode.edges) :
         ( /\ FromNode.edges[k].condition_value = last.cond
           /\ \A j \in 1..(k - 1) : FromNode.edges[j].condition_value # last.cond
           /\ IsGroup(nodes, FromNode.edges[k].target_node)
           /\ Cardinality(EntryChildren(nodes, FromNode.edges[k].target_node)) = 1 )
         => ( /\ Returned
              /\ current_node_id \in EntryChildren(nodes, FromNode.edges[k].target_node) )

\* C8: advance is a pure function of the graph, the caller's cursor and the
\* condition value: a step taken by workflow w leaves unchanged the node from
\* which every other workflow's next advance starts.
AdvanceIsPure ==
    [][\A w \in Callers, v \in Callers :
         (v # w /\ last'.caller = w) => NextStart(v)' = NextStart(v)]_vars

\* well-formed graphs: one Entry at the top level, one Entry child in every
\* group, and no cycle of group-to-group edges
TopLevelEntries(ns) ==
    {i \in DOMAIN ns : ~Truthy(ns[i].parent_node) /\ ns[i].node_type = "input"}

GroupSuccessors(ns, S) ==
    {t \in DOMAIN ns : /\ IsGroup(ns, t)
                       /\ \E g \in S : /\ IsGroup(ns, g)
                                       /\ \E k \in 1..Len(ns[g].edges) :
                                            ns[g].edges[k].target_node = t}

RECURSIVE GroupReach(_, _, _)
GroupReach(ns, S, n) ==
    IF n = 0 THEN {}
    ELSE LET step == GroupSuccessors(ns, S)
         IN step \cup GroupReach(ns, step, n - 1)

WellFormed(ns) ==
    /\ TopLevelEntries(ns) = {StartNodeId}
    /\ \A g \in DOMAIN ns : IsGroup(ns, g) => Cardinality(EntryChildren(ns, g)) = 1
    /\ \A g \in DOMAIN ns : g \notin GroupReach(ns, {g}, Cardinality(DOMAIN ns))

EndToEndGraph ==
    /\ edges = <<Edge("1", "2", ""), Edge("2", "3", "ok")>>
    /\ nodes["1"].node_type = "input"
    /\ nodes["2"].node_type = "default"
    /\ nodes["3"].node_type = "output"
    /\ \A i \in NodeIds : nodes[i].parent_node = ""
    /\ NodeAction(nodes, "2") = "check"

ExecuteEnded == runner.pc \in {"returned", "raised"}

\* C10: end to end. On the end-to-end graph, once execute() has ended it has
\* returned without raising, the last node the workflow visited is the Terminal
\* node, and the memory holds a record keyed "check" and a Terminal-flavoured
\* record (keyed "error"), and nothing else.
EndToEnd ==
    (EndToEndGraph /\ ExecuteEnded)
    => ( /\ runner.pc = "returned"
         /\ wf[1].history # <<>>
         /\ wf[1].history[Len(wf[1].history)] = "3"
         /\ DOMAIN action_map = {"check", "error"} )

\* no node reaches itself along edges
EdgeSuccessors(ns, S) ==
    {t \in DOMAIN ns : \E i \in S : \E k \in 1..Len(ns[i].edges) : ns[i].edges[k].target_node = t}

RECURSIVE EdgeReach(_, _, _)
EdgeReach(ns, S, n) ==
    IF n = 0 THEN {}
    ELSE LET step == EdgeSuccessors(ns, S)
         IN step \cup EdgeReach(ns, step, n - 1)

Acyclic(ns) == \A i \in DOMAIN ns : i \notin EdgeReach(ns, {i}, Cardinality(DOMAIN ns))

\* C11: execute() runs to completion. On a well-formed acyclic graph, once
\* execute() has ended it has returned normally, no workflow and no task is
\* still tracked, and every forked workflow that has taken a step started on
\* the branch it was created for.
ExecuteCompletes ==
    (WellFormed(nodes) /\ Acyclic(nodes) /\ ExecuteEnded)
    => ( /\ runner.pc = "returned"
         /\ workflows = {}
         /\ tasks = {}
         /\ \A j \in 1..Len(wf) :
              (dicts[wf[j].context].branch # "" /\ wf[j].history # <<>>)
              => wf[j].history[1] = dicts[wf[j].context].branch )

\* C12: branch failure isolation. When the step of a workflow has raised an
\* exception and was removed while sibling tasks are still tracked,
\* run_all_tasks has neither raised nor returned: it goes on waiting for the
\* siblings.
BranchFailureIsolated ==
    (excepted # {} /\ tasks # {}) => runner.pc \notin {"raised", "returned"}

\* C15: fork. A pass of workflow w on a Decision node with k outgoing edges
\* creates exactly k workflows, each tracked by the manager with a pending task
\* of its own in the event loop, the context of the j-th being the context of w
\* with 'branch' set to the target of the j-th edge; and the context of a
\* workflow changes only when update_context is called on that workflow.
Fork ==
    [][ /\ \A w \in 1..MaxWorkflows, a \in StageAnswers :
             ( /\ RunTask(w, a)
               /\ HasNode(nodes, wf[w].current_node_id)
               /\ nodes[wf[w].current_node_id].node_type = "default" )
             => LET es == nodes[wf[w].current_node_id].edges
                    n == Len(wf)
                IN /\ Len(wf') = n + Len(es)
                   /\ \A j \in 1..Len(es) :
                        /\ n + j \in workflows'
                        /\ n + j \in tasks'
                        /\ task_state'[n + j] = "pending"
                        /\ \E q \in 1..Len(ready') : ready'[q] = [kind |-> "task", id |-> n + j]
                        /\ dicts'[wf'[n + j].context]
                             = [dicts[wf[w].context] EXCEPT !.branch = es[j].target_node]
        /\ \A v \in 1..Len(wf) :
             dicts'[wf[v].context] # dicts[wf[v].context]
             => \E val \in ContextValues : UpdateContext(v, val) ]_vars

\* a Decision start node with edges to "2" and "3" has forked two workflows, the
\* context of the first of them was changed afterwards, and the parent's
\* context has neither entry
ForkWitness ==
    /\ nodes[StartNodeId].node_type = "default"
    /\ Len(nodes[StartNodeId].edges) = 2
    /\ Len(wf) >= 3
    /\ dicts[wf[1].context] = EmptyContext
    /\ dicts[wf[2].context] = [branch |-> "2", note |-> "x"]
    /\ dicts[wf[3].context] = [branch |-> "3", note |-> ""]

\* C16: Terminal node. A workflow that was removed after a pass on a Terminal
\* node has left a record under the action key "error" that carries the node's
\* description, and its cursor is still on the Terminal node.
TerminalRecord ==
    \A w \in 1..Len(wf) :
      LET h == wf[w].history
      IN ( /\ w \notin workflows
           /\ h # <<>>
           /\ HasNode(nodes, h[Len(h)])
           /\ nodes[h[Len(h)]].node_type = "output" )
         => ( /\ "error" \in DOMAIN action_map
              /\ action_map["error"].description = NodeDescription(h[Len(h)])
              /\ wf[w].current_node_id = h[Len(h)] )

(***************************************************************************)
(* Properties of WorkflowManager.                                          *)
(***************************************************************************)
\* no task was cancelled: every task that has ended returned or raised
NoneCancelled == \A t \in 1..Len(task_state) : task_state[t] \notin {"cancelling", "cancelled"}

\* C13: run_all_tasks joins all tasks. With the event loop running, every task
\* finishing and none of them cancelled, run_all_tasks eventually returns
\* normally, also when no task is registered after the last one has finished;
\* and at the moment it returns no tracked task is still pending.
JoinAll ==
    /\ ([]NoneCancelled) => <>(runner.pc = "returned")
    /\ [][(runner.pc # "returned" /\ runner'.pc = "returned")
           => \A t \in tasks' : ~NotDone(task_state'[t])]_vars

\* C14: remove_workflow(id) removes id from the workflow map and from the task
\* map, requests cancellation of the task of id exactly when it is tracked and
\* not done, and leaves every other entry and every other task as it was; for
\* an id tracked in neither map nothing changes.
RemoveWorkflowFrame ==
    [][ removed'.flip # removed.flip
        => LET id == removed'.id
           IN /\ workflows' = workflows \ {id}
              /\ tasks' = tasks \ {id}
              /\ \A j \in 1..Len(task_state) :
                   IF j = id /\ id \in tasks /\ NotDone(task_state[id])
                   THEN task_state'[j] \in {"cancelling", "cancelled"}
                   ELSE j # id => task_state'[j] = task_state[j]
              /\ (id \notin workflows \cup tasks)
                 => (workflows' = workflows /\ tasks' = tasks /\ task_state' = task_state) ]_vars

\* workflow 1 was removed while its task was pending, and is tracked in neither
\* map any more; workflow 2 and its pending task are still tracked
RemoveWorkflowFrameWitness ==
    /\ removed.id = 1
    /\ Len(task_state) >= 2
    /\ task_state[1] = "cancelling"
    /\ 1 \notin workflows \cup tasks
    /\ 2 \in workflows \cap tasks
    /\ task_state[2] = "pending"

(***************************************************************************)
(* Properties of the memory store.                                         *)
(***************************************************************************)
\* the questions of a question_node_map and the node ids kept for a question
QuestionSet(qs) == {qs[k].question : k \in 1..Len(qs)}
NodeIdsOf(qs, q) == UNION {qs[k].node_ids : k \in {j \in 1..Len(qs) : qs[j].question = q}}

\* C17: store merge. A store of an item whose action already has a record
\* leaves one record for that action, whose questions are those of the record
\* and of the item together, each question once, and whose node ids for a
\* question are those of the record and of the item together; no other action
\* gains or loses a record.
StoreMerge ==
    [][\A a \in MemActions, o \in Observations, p \in QuestionPairs :
         (Store(a, o, p[1], p[2]) /\ a \in DOMAIN action_map)
         => LET old == action_map[a].questions
                new == action_map'[a].questions
            IN /\ DOMAIN action_map' = DOMAIN action_map
               /\ QuestionSet(new) = QuestionSet(old) \cup {p[1]}
               /\ Len(new) = Cardinality(QuestionSet(new))
               /\ \A q \in QuestionSet(new) :
                    NodeIdsOf(new, q) = NodeIdsOf(old, q) \cup (IF q = p[1] THEN {p[2]} ELSE {})
               /\ \A b \in DOMAIN action_map : b # a => action_map'[b] = action_map[b] ]_vars

\* three stores under action "a": question q1 for node "1", q2 for node "1",
\* q1 for node "2"
StoreMergeWitness ==
    /\ stores = 3
    /\ DOMAIN action_map = {"a"}
    /\ action_map["a"].questions = << [question |-> "q1", node_ids |-> {"1", "2"}],
                                      [question |-> "q2", node_ids |-> {"1"}] >>

\* C18: most recent observation. After a store of an item whose action
\* already has a record, the record holds the item's observation and the
\* item's timestamp.
MostRecentObservation ==
    [][\A a \in MemActions, o \in Observations, p \in QuestionPairs :
         (Store(a, o, p[1], p[2]) /\ a \in DOMAIN action_map)
         => ( /\ action_map'[a].observation = o
              /\ action_map'[a].timestamp = clock ) ]_vars

\* C19: refresh order. In a pass during which nothing is stored, the actions
\* are re-executed in non-increasing order of the timestamps their records had
\* when the pass began.
RefreshOrder ==
    refresh.quiet
    => \A i, j \in 1..Len(refresh.log) :
         i < j => refresh.began[refresh.log[i]] >= refresh.began[refresh.log[j]]

\* C20: stale duplicates are skipped. In a pass during which nothing is
\* stored, no action is re-executed twice.
NoDuplicateRefresh ==
    refresh.quiet
    => \A i, j \in 1..Len(refresh.log) : i < j => refresh.log[i] # refresh.log[j]

\* the actions re-executed so far in the pass
Refreshed == {refresh.log[k] : k \in 1..Len(refresh.log)}

\* C21: refresh error isolation. In both store classes a re-execution that
\* fails does not end the refresh thread, and a pass during which nothing is
\* stored has, when it ends, re-executed every action that was queued with a
\* record when it began.
RefreshErrorIsolation ==
    /\ refresh.pc # "dead"
    /\ (refresh.pc = "idle" /\ refresh.quiet) => refresh.queued \subseteq Refreshed

\* the keys of action_map other than a are the same before and after the step
OthersKept(a) == DOMAIN action_map' \ {a} = DOMAIN action_map \ {a}

\* C22: record lifecycle. No action has a record before anything is stored; a
\* store of an action makes get return a record for it, a removal makes get
\* return None for it, and neither changes whether any other action has a
\* record; no step of the refresh thread changes which actions have a record.
\* The record get returns for a key has that key as its action, and right
\* after the first store of an action its observation and description are
\* those of the item stored.
RecordLifecycle ==
    /\ \A a \in MemActions : GetMemoryItemByAction(action_map, a) = NoItem
    /\ [](\A a \in MemActions :
            GetMemoryItemByAction(action_map, a) # NoItem
            => GetMemoryItemByAction(action_map, a).action = a)
    /\ [][ /\ \A a \in MemActions, o \in Observations, d \in Descriptions :
                StoreItem(a, o, d, "q1", "1")
                => /\ GetMemoryItemByAction(action_map', a) # NoItem
                   /\ OthersKept(a)
                   /\ (GetMemoryItemByAction(action_map, a) = NoItem
                       => /\ GetMemoryItemByAction(action_map', a).observation = o
                          /\ GetMemoryItemByAction(action_map', a).description = d)
           /\ \A a \in MemActions :
                RemoveMemoryItemByAction(a)
                => /\ GetMemoryItemByAction(action_map', a) = NoItem
                   /\ OthersKept(a)
           /\ (RefreshBegin \/ RefreshEnd \/ Tick \/ \E res \in ExecuteResults : RefreshPop(res))
                => DOMAIN action_map' = DOMAIN action_map ]_vars

\* action "a" was stored, re-executed by a refresh pass, removed during the
\* pass and stored again: get returns the record of the second store
RecordLifecycleWitness ==
    /\ stores = 2
    /\ refresh.pc = "idle" /\ ~refresh.quiet /\ "a" \in Refreshed
    /\ GetMemoryItemByAction(action_map, "a") # NoItem
    /\ GetMemoryItemByAction(action_map, "a").observation = "o2"
    /\ GetMemoryItemByAction(action_map, "a").description = "e"
    /\ GetMemoryItemByAction(action_map, "a").timestamp = 2
    /\ GetMemoryItemByAction(action_map, "b") = NoItem

(***************************************************************************)
(* Properties of Stage voting.                                             *)
(***************************************************************************)
\* the calls of select_final_output of a class made so far
CallsOf(class) == {k \in 1..Len(stage.calls) : stage.calls[k].class = class}
Returned_(k) == stage.calls[k].out.raised = ""

\* an output parses when the parser returns an action or the finish signal
Parses(o) == Parse(o).raised = ""
ParsedOutputs == {i \in 1..Len(stage.outputs) : Parses(stage.outputs[i])}

\* the answer an output that parses votes for: its signature, or what it
\* parses to where extract_tool_signature yields none
AnswerOf(o) == IF ExtractToolSignature(o).raised = "" THEN ExtractToolSignature(o) ELSE Parse(o)
Voters(o) == {i \in ParsedOutputs : AnswerOf(stage.outputs[i]) = AnswerOf(o)}
FirstVoter(o) == CHOOSE i \in Voters(o) : \A j \in Voters(o) : i <= j

\* C23: majority vote. When some output parses, ActionStage.select_final_output
\* returns an output that parses and whose answer has the most votes among
\* the outputs that parse; of the answers with the most votes it is the one
\* that occurs first in the list.
MajorityVote ==
    stage.pc = "vote"
    => \A k \in CallsOf("ActionStage") :
         ParsedOutputs # {}
         => /\ Returned_(k)
            /\ Parses(stage.calls[k].out.ret)
            /\ \A i \in ParsedOutputs :
                 LET r == stage.calls[k].out.ret
                     x == stage.outputs[i]
                 IN /\ Cardinality(Voters(x)) <= Cardinality(Voters(r))
                    /\ Cardinality(Voters(x)) = Cardinality(Voters(r))
                         => FirstVoter(r) <= FirstVoter(x)

\* the positions of the outputs whose signature is that of o, and the number
\* of them that come before position i when they are ordered by length,
\* equal lengths in the order of the list
SameSignature(o) ==
    {i \in 1..Len(stage.outputs) :
       /\ ExtractToolSignature(stage.outputs[i]).raised = ""
       /\ ExtractToolSignature(stage.outputs[i]) = ExtractToolSignature(o)}
ShorterBefore(M, i) ==
    Cardinality({j \in M : \/ TextLen(stage.outputs[j]) < TextLen(stage.outputs[i])
                           \/ /\ TextLen(stage.outputs[j]) = TextLen(stage.outputs[i])
                              /\ j < i})

\* C24: median-length pick. The output ActionStage.select_final_output
\* returns is, among the k outputs with its signature ordered by length with
\* equal lengths kept in the order of the list, the one at index k div 2
\* (counted from 0).
MedianLength ==
    stage.pc = "vote"
    => \A c \in CallsOf("ActionStage") :
         Returned_(c)
         => LET M == SameSignature(stage.calls[c].out.ret)
            IN \E i \in M : /\ stage.outputs[i] = stage.calls[c].out.ret
                            /\ ShorterBefore(M, i) = Cardinality(M) \div 2

\* three outputs with one signature, the first longer than the other two,
\* which are different texts of one length: the last one is returned
MedianLengthWitness ==
    /\ stage.pc = "vote"
    /\ Len(stage.outputs) = 3
    /\ SameSignature(stage.outputs[1]) = {1, 2, 3}
    /\ TextLen(stage.outputs[1]) > TextLen(stage.outputs[2])
    /\ TextLen(stage.outputs[2]) = TextLen(stage.outputs[3])
    /\ stage.outputs[2] # stage.outputs[3]
    /\ \E c \in CallsOf("ActionStage") :
         Returned_(c) /\ stage.calls[c].out.ret = stage.outputs[3]

\* the argument keys of a dict input and the value it holds for a key
KeysOf(items) == {items[i][1] : i \in 1..Len(items)}
ValueOf(items, key) ==
    items[CHOOSE i \in 1..Len(items) :
            /\ items[i][1] = key
            /\ \A j \in (i + 1)..Len(items) : items[j][1] # key][2]

\* two outputs parse to tool names equal up to letter case and to the same
\* argument keys with string values equal up to letter case
EqualUpToCase(x, y) ==
    /\ Parse(x).type = "AgentAction" /\ Parse(y).type = "AgentAction"
    /\ Lower(Parse(x).tool) = Lower(Parse(y).tool)
    /\ Parse(x).tool_input.type = "dict" /\ Parse(y).tool_input.type = "dict"
    /\ KeysOf(Parse(x).tool_input.items) = KeysOf(Parse(y).tool_input.items)
    /\ \A key \in KeysOf(Parse(x).tool_input.items) :
         /\ ValueOf(Parse(x).tool_input.items, key) # PyList
         /\ Lower(ValueOf(Parse(x).tool_input.items, key))
              = Lower(ValueOf(Parse(y).tool_input.items, key))

\* C25: signature canonicalisation. In a vote of ActionStage, two outputs
\* that parse to tool names equal up to letter case and to the same argument
\* keys with string values equal up to letter case, in whatever order, get
\* the same signature.
SignatureCanonical ==
    stage.pc = "vote"
    => \A c \in CallsOf("ActionStage") :
         \A i, j \in 1..Len(stage.outputs) :
           EqualUpToCase(stage.outputs[i], stage.outputs[j])
           => /\ ExtractToolSignature(stage.outputs[i]).raised = ""
              /\ ExtractToolSignature(stage.outputs[i]) = ExtractToolSignature(stage.outputs[j])

VoteDeterministic ==
    stage.pc = "vote"
    => \A c1, c2 \in 1..Len(stage.calls) :
         stage.calls[c1].class = stage.calls[c2].class
         => stage.calls[c1].out = stage.calls[c2].out

\* C28: raw-string vote. On a list that is not empty
\* BaseStage.select_final_output returns a member of the list that no other
\* member occurs more often than.
RawMajority ==
    stage.pc = "vote"
    => \A c \in CallsOf("BaseStage") :
         stage.outputs # <<>>
         => /\ Returned_(c)
            /\ \E i \in 1..Len(stage.outputs) : stage.outputs[i] = stage.calls[c].out.ret
            /\ \A i \in 1..Len(stage.outputs) :
                 CountOf(stage.outputs, stage.outputs[i])
                   <= CountOf(stage.outputs, stage.calls[c].out.ret)

\* a text occurs twice among three outputs and is returned although the set
\* is iterated from the other text
RawMajorityWitness ==
    /\ stage.pc = "vote"
    /\ Len(stage.outputs) = 3
    /\ stage.outputs[1] = stage.outputs[3]
    /\ stage.outputs[2] # stage.outputs[1]
    /\ \E c \in CallsOf("BaseStage") :
         /\ SetOrder(stage.calls[c].seed, {stage.outputs[1], stage.outputs[2]})[1] = stage.outputs[2]
         /\ Returned_(c)
         /\ stage.calls[c].out.ret = stage.outputs[1]

(***************************************************************************)
(* Properties of the repair of outputs.                                    *)
(***************************************************************************)
Repairing == stage.pc \in {"repair", "returned"} /\ stage.pass > 0

\* C29: global repair budget. During one process_sct call on n outputs the
\* number of calls of the fixing model is at most fixing_num * n and
\* remaining_fixes is never below zero, in both passes, whatever the order in
\* which the try_fix_output coroutines go on.
RepairBudget ==
    stage.pc \in {"called", "repair", "returned"}
    => /\ stage.calls <= stage.fixing_num * stage.n
       /\ stage.remaining_fixes >= 0
       /\ Repairing => stage.remaining_fixes = stage.fixing_num * stage.n - stage.calls

\* in the second pass of the coroutines the budget is used up while an
\* output that still fails has attempts left, and that coroutine returns
\* without a further call
RepairBudgetWitness ==
    /\ stage.pc = "repair"
    /\ stage.class = "base"
    /\ stage.pass = 2
    /\ stage.n = 2
    /\ stage.remaining_fixes = 0
    /\ stage.calls = stage.fixing_num * stage.n
    /\ \E i \in 1..stage.n :
         /\ stage.co[i] = "done"
         /\ stage.attempt[i] = 1
         /\ stage.attempt[i] < stage.fixing_num
         /\ TryRaises("base", stage.outputs[i], TRUE)

(***************************************************************************)
(* Properties of the conclusion parser.                                    *)
(***************************************************************************)
RECURSIVE LowerText(_)
LowerText(t) == IF t = <<>> THEN <<>> ELSE <<Lower(Head(t))>> \o LowerText(Tail(t))

\* the label is a substring of the text when letter case is ignored
Occurs(label, text) ==
    \E from \in 1..(Len(text) + 1), to \in 0..Len(text) :
      SubSeq(LowerText(text), from, to) = LowerText(label)

\* the entries of the list of labels that occur in the text
Occurring == {i \in 1..Len(stage.patterns) : Occurs(stage.patterns[i], stage.text)}

\* C30: conclusion parsing. parse returns label L exactly when L is the only
\* entry of the list of labels that occurs in the text as a substring,
\* letter case ignored; when no entry or more than one entry occurs it
\* raises OutputParserException, whose message lists the labels.
ConclusionUnique ==
    stage.pc = "parsed"
    => /\ \A L \in PermittedLabels :
            (stage.out.raised = "" /\ stage.out.tool = L)
            <=> (\E i \in Occurring : Occurring = {i} /\ stage.patterns[i] = L)
       /\ Cardinality(Occurring) # 1
            => /\ stage.out.raised = "OutputParserException"
               /\ stage.out.candidates = stage.patterns

\* of two labels only one occurs, in another letter case than the text has,
\* and it is returned as the list spells it
ConclusionUniqueWitness ==
    /\ stage.pc = "parsed"
    /\ stage.text = <<"k", "X">>
    /\ stage.patterns = << <<"x", "k">>, <<"K", "x">> >>
    /\ stage.out.raised = ""
    /\ stage.out.tool = <<"K", "x">>

\* C32: per-output repair bound. In each pass of process_sct an output gets
\* at most fixing_num calls of the fixing model; the second pass runs only
\* with dynamic_fixing set and with budget left after the first pass; an
\* output gets at most fixing_num calls without dynamic_fixing and at most
\* 2 * fixing_num with it.
PerOutputBound ==
    stage.pc \in {"repair", "returned"}
    => /\ \A i \in 1..stage.n :
            /\ stage.attempt[i] <= stage.fixing_num
            /\ stage.fixes[i] <= (IF stage.dynamic_fixing THEN 2 ELSE 1) * stage.fixing_num
       /\ stage.pass = 2
            => /\ stage.dynamic_fixing
               /\ stage.first_pass < stage.fixing_num * stage.n

\* an output has used fixing_num calls in the first pass and fixing_num more
\* in the second
PerOutputBoundWitness ==
    /\ stage.pc = "repair"
    /\ stage.pass = 2
    /\ stage.fixing_num > 0
    /\ \E i \in 1..stage.n :
         /\ stage.attempt[i] = stage.fixing_num
         /\ stage.fixes[i] = 2 * stage.fixing_num

\* the input parses and passes validate_tool_input
ParsesAndValidates(o) == Parse(o).raised = "" /\ ~ValidateRaises(Parse(o))

\* C37: process_sct preserves the batch. It returns as many outputs as it
\* was given, in the order given; result i is input i, with no call of the
\* fixing model for it, when input i parses and validates, and otherwise
\* (fixing_num being positive) what the fixing model made of input i; with
\* fixing disabled the list is returned as it was, with zero attempts.
BatchPreserved ==
    stage.pc = "returned"
    => /\ Len(stage.outputs) = Len(stage.inputs)
       /\ ~stage.enable_fixing => stage.outputs = stage.inputs /\ stage.total_attempt = 0
       /\ stage.enable_fixing
            => \A i \in 1..Len(stage.inputs) :
                 IF ParsesAndValidates(stage.inputs[i])
                 THEN stage.outputs[i] = stage.inputs[i] /\ stage.fixes[i] = 0
                 ELSE stage.fixing_num > 0 => stage.fixes[i] > 0

(***************************************************************************)
(* Properties of the queue of the memory store.                            *)
(***************************************************************************)
QueuedActions(h) == {h[k].action : k \in 1..Len(h)}

\* C38: no action drops out of the refresh cycle. Whenever no pass of
\* refresh_all_items is in progress, every action of action_map has an
\* entry in memory_store, also after passes in which a re-execution failed
\* and passes during which records were stored.
NoActionDropped ==
    refresh.pc = "idle" => DOMAIN action_map \subseteq QueuedActions(memory_store)

\* heapq's invariant: no entry is smaller than its parent
IsHeap(h) == \A i \in 2..Len(h) : ~EntryLess(h[i], h[i \div 2])

\* the entries of the queue for an action, in the order of the list
EntriesOf(h, a) == SelectSeq(h, LAMBDA e : e.action = a)

\* the step is remove_memory_item_by_action(a) on a queue that is a heap
RemovalStep(a) ==
    /\ IsHeap(memory_store)
    /\ memory_store' = RemoveEntries(memory_store, a)
    /\ action_map' = DelAction(action_map, a)
    /\ clock' = clock /\ refresh.temp_store = refresh'.temp_store
    /\ a \in DOMAIN action_map

\* C39: removal keeps the queue ordered. After
\* remove_memory_item_by_action(a) the queue has no entry for a, the records
\* and the entries of the other actions are as before, and the entries left
\* form a heap.
RemovalKeepsHeap ==
    [][\A a \in MemActions :
         RemovalStep(a)
         => /\ a \notin QueuedActions(memory_store')
            /\ \A b \in MemActions \ {a} :
                 /\ GetMemoryItemByAction(action_map', b) = GetMemoryItemByAction(action_map, b)
                 /\ EntriesOf(memory_store', b) = EntriesOf(memory_store, b)
            /\ IsHeap(memory_store')]_vars

(***************************************************************************)
(* Properties of the construction of a graph.                              *)
(***************************************************************************)
\* the edges of the graph's edge list whose source is n, in insertion order
EdgesFrom(n) == SelectSeq(edges, LAMBDA e : e.source_node = n)

\* C40: adjacency consistency. After any sequence of add_node and add_edge
\* calls, the edges of every node of the graph are the edges of the graph's
\* edge list whose source is the node, in insertion order, so that
\* get_reachable_nodes and get_node_if_statement give the targets and the
\* non-empty labels of all of them.
AdjacencyConsistent ==
    \A n \in DOMAIN nodes :
      /\ nodes[n].edges = EdgesFrom(n)
      /\ GetReachableNodes(nodes[n])
           = [k \in 1..Len(EdgesFrom(n)) |-> EdgesFrom(n)[k].target_node]
      /\ GetNodeIfStatement(nodes[n].edges)
           = [k \in 1..Len(SelectSeq(EdgesFrom(n), LAMBDA e : e.condition_value # "")) |->
                SelectSeq(EdgesFrom(n), LAMBDA e : e.condition_value # "")[k].condition_value]

(***************************************************************************)
(* Properties of loading.                                                  *)
(***************************************************************************)
\* the description has zero or several top-level Entry nodes, or a Group
\* with zero or several Entry children
Malformed(f) ==
    \/ Cardinality(TopLevelEntries(f)) # 1
    \/ \E g \in DOMAIN f : f[g].node_type = "group" /\ Cardinality(EntryChildren(f, g)) # 1

PassRan(w) ==
    /\ ready # <<>>
    /\ Head(ready) = [kind |-> "task", id |-> w]
    /\ wf' # wf \/ ready' # ready

\* C36: history is append-only. In every pass of process_workflow the id of
\* the node at the workflow's cursor is appended to its history, the entries
\* it had stay as they were and the last entry is the node being processed;
\* when the cursor names no node of the graph nothing is appended and the
\* workflow is removed; no other step changes a history.
HistoryAppendOnly ==
    [][\A w \in 1..Len(wf) :
         /\ Len(wf') >= Len(wf)
         /\ IF PassRan(w)
            THEN IF HasNode(nodes, wf[w].current_node_id)
                 THEN /\ wf'[w].history = Append(wf[w].history, wf[w].current_node_id)
                      /\ SubSeq(wf'[w].history, 1, Len(wf[w].history)) = wf[w].history
                 ELSE /\ wf'[w].history = wf[w].history
                      /\ w \notin workflows'
            ELSE wf'[w].history = wf[w].history]_vars

\* a workflow has gone through a pass on a node of the graph, and the node
\* is the last entry of its history
HistoryAppendOnlyWitness ==
    \E w \in 1..Len(wf) :
      /\ wf[w].history # <<>>
      /\ HasNode(nodes, wf[w].history[Len(wf[w].history)])
      /\ w \notin workflows

\* the nodes of the questions of the call under way
PairNodes == UNION {stage.pair[k].node_ids : k \in 1..Len(stage.pair)}

\* C34: Stage failure is surfaced. When run_action_and_set_conclusion has
\* returned to the step loop and the extraction Stage failed for one of its
\* questions, the call has raised, so that the step loop ends the workflow;
\* a call that returns without raising has assigned a conclusion to every
\* node of its pair, so the step loop never advances on a conclusion an
\* earlier call left on the node.
StageFailureSurfaced ==
    stage.pc = "returned" =>
      /\ stage.failed # {} => stage.raised
      /\ ~stage.raised => PairNodes \subseteq stage.written

\* C35: single writer per node. Node.conclusion of a node changes only in a
\* pass of the task of a workflow whose cursor is on that node: no pass of
\* refresh_all_items and no other task writes it.
SingleWriter ==
    [][\A n \in NodeIds :
         conclusion'[n] # conclusion[n] =>
           \E w \in workflows : wf[w].current_node_id = n /\ PassRan(w)]_vars

====
